---- MODULE Spec2Model ----
(***************************************************************************)
(* Progress service of the learning backend                                *)
(* (src/packages/backend/src/services/progress.ts) over the Prisma store   *)
(* (tables user_progress, unit_asset_progress, pronunciation_attempts,     *)
(* daily_plan_entries).  Every await of a store call is one atomic step of *)
(* the calling request; requests are the processes.                        *)
(***************************************************************************)
EXTENDS Integers, Sequences, FiniteSets, TLC

VARIABLES
    userProgress,          \* [Users \X Units -> row]   table user_progress
    unitAssetProgress,     \* [Users \X Assets -> row]  table unit_asset_progress
    pronunciationAttempt,  \* [Users \X Units -> Seq(row)] table pronunciation_attempts
    dailyPlanEntry,        \* [Entries -> row]          table daily_plan_entries
    clock,                 \* the wall clock read by new Date(); one tick per request
    procs                  \* [Procs -> request state]

vars == <<userProgress, unitAssetProgress, pronunciationAttempt, dailyPlanEntry, clock, procs>>

----------------------------------------------------------------------------
(* Bounds *)

\* requests begun in one behaviour of the sequential specification
MaxCalls == 3
\* requests begun in one behaviour of the interleaved specification
MaxConcCalls == 3

----------------------------------------------------------------------------
(* Values *)

\* SQL NULL of a nullable DATETIME column; timestamps start at 1
Null == 0

\* SQL NULL of the nullable INTEGER columns duration and durationSeconds,
\* whose values are at least 0
NullInt == 0 - 1

\* a JavaScript number n/d; d = 0 stands for undefined
Rat(n, d) == [n |-> n, d |-> d]
Undefined == Rat(0, 0)
IsDefined(q) == q.d # 0

Max(a, b) == IF a >= b THEN a ELSE b
Min(a, b) == IF a <= b THEN a ELSE b

\* Math.floor
MathFloor(q) == q.n \div q.d

\* Math.round: nearest integer, halves towards +infinity
MathRound(q) == (2 * q.n + q.d) \div (2 * q.d)

\* Math.min(Math.max(x, 0), 100) on an integer-valued number
Clamp(x) == Min(Max(x, 0), 100)

\* Math.min(Math.max(q, 0), 100) on a fraction
ClampRat(q) ==
    IF q.n < 0 THEN Rat(0, 1)
    ELSE IF q.n > 100 * q.d THEN Rat(100, 1)
    ELSE q

RECURSIVE SumSeq(_)
SumSeq(s) == IF s = <<>> THEN 0 ELSE Head(s) + SumSeq(Tail(s))

----------------------------------------------------------------------------
(* Catalog and identities (read-only for the service) *)

Users == {"A", "B"}
Units == {"u1", "u2"}
Assets == {"a1", "a2"}
Entries == {"e1", "e2", "e3", "e4"}
Procs == {"p1", "p2"}

\* table unit_assets: unit u1 has two assets, unit u2 has none
unitAsset ==
    [a \in Assets |->
        IF a = "a1" THEN [unitId |-> "u1", duration |-> 3]
        ELSE [unitId |-> "u1", duration |-> NullInt]]

\* prisma.unitAsset.findMany({ where: { unitId } })
UnitAssetFindMany(unitId) ==
    IF unitId = "u1" THEN <<"a1", "a2">> ELSE <<>>

\* daily_plan_entries joined with daily_plans: owner and unit of each entry;
\* learner A has two entries (two dates) for u1 and one for u2, learner B
\* has one for u1
entryOwner == [e \in Entries |-> IF e = "e3" THEN "B" ELSE "A"]
entryUnit == [e \in Entries |-> IF e = "e4" THEN "u2" ELSE "u1"]
EntryOrder == <<"e1", "e2", "e3", "e4">>

\* table stories: story s1 holds both units, story s2 has no unit yet
Stories == {"s1", "s2"}

\* prisma.unit.findMany({ where: { storyId }, orderBy: { order: 'asc' } })
UnitFindMany(storyId) ==
    IF storyId = "s1" THEN <<"u1", "u2">> ELSE <<>>

\* units.storyId
unitStory == [u \in Units |-> "s1"]

----------------------------------------------------------------------------
(* Rows *)

NoUserProgress ==
    [exists |-> FALSE, startedAt |-> Null, completed |-> FALSE,
     completedAt |-> Null, score |-> 0]

NoAssetProgress ==
    [exists |-> FALSE, unitId |-> "none", progressPercentage |-> 0,
     secondsWatched |-> 0, durationSeconds |-> NullInt, completed |-> FALSE,
     completedAt |-> Null]

NoAttempt == [id |-> 0, score |-> 0]

NoData ==
    [secondsWatched |-> Undefined, progressPercentage |-> 0,
     durationSeconds |-> Undefined, completed |-> "undefined"]

\* the object getStoryProgress returns (titles and level name left out)
NoStoryProgress ==
    [totalUnits |-> 0, completedUnits |-> 0, averageScore |-> 0, units |-> <<>>]

\* the object getUserProgressSummary returns (titles and level name left out,
\* and recentActivity, the one field that depends on the order by updatedAt)
NoSummary ==
    [totalUnits |-> 0, completedUnits |-> 0, inProgressUnits |-> 0,
     averageScore |-> 0, totalPronunciationAttempts |-> 0,
     averagePronunciationScore |-> Rat(0, 1), stories |-> {}]

NoResult ==
    [progress |-> NoUserProgress, assetProgress |-> NoAssetProgress,
     attempt |-> NoAttempt, averageScore |-> Undefined, attemptCount |-> 0,
     score |-> 0, dailyPlanUpdated |-> FALSE, story |-> NoStoryProgress,
     summary |-> NoSummary]

\* what a rejected call carries: the class of the thrown object, the
\* operation whose catch block built the message, and the message it wraps
NoError == [kind |-> "none", op |-> "none", cause |-> "none"]

\* what the router reads of an HTTP request: the route, the user the auth
\* middleware set ("none" without a valid token), the path parameters and
\* the fields of the JSON body
NoRequest ==
    [route |-> "none", user |-> "none", unitId |-> "u1", assetId |-> "a1",
     storyId |-> "s1", hasSecondsWatched |-> FALSE, hasProgressPercentage |-> FALSE,
     data |-> NoData, audioKey |-> "undefined", hasScore |-> FALSE, score |-> 0,
     finalScore |-> Undefined]

IdleProc ==
    [pc |-> "idle", op |-> "none", callId |-> 0,
     userId |-> "A", unitId |-> "u1", assetId |-> "a1",
     data |-> NoData, finalScore |-> Undefined, attemptScore |-> 0,
     now |-> Null, existing |-> NoAssetProgress, todo |-> <<>>,
     progressRead |-> FALSE, attemptsRead |-> FALSE,
     progressMap |-> [a \in {} |-> 0], attemptScores |-> <<>>,
     score |-> 0, entries |-> <<>>, planFound |-> FALSE,
     storyId |-> "s1", unitReads |-> <<>>, allProgress |-> <<>>, retry |-> FALSE,
     request |-> NoRequest, status |-> 0,
     result |-> NoResult, error |-> NoError]

----------------------------------------------------------------------------
(* Request inputs *)

\* bodies of POST /progress/assets/:assetId/update
AssetInputs ==
    { [secondsWatched |-> Rat(0 - 3, 2), progressPercentage |-> 0 - 5,
       durationSeconds |-> Undefined, completed |-> "undefined"],
      [secondsWatched |-> Rat(5, 2), progressPercentage |-> 89,
       durationSeconds |-> Rat(7, 2), completed |-> "undefined"],
      [secondsWatched |-> Rat(9, 2), progressPercentage |-> 90,
       durationSeconds |-> Undefined, completed |-> "undefined"],
      [secondsWatched |-> Rat(7, 2), progressPercentage |-> 150,
       durationSeconds |-> Rat(0 - 1, 2), completed |-> "false"],
      [secondsWatched |-> Rat(1, 2), progressPercentage |-> 80,
       durationSeconds |-> Undefined, completed |-> "true"] }

\* the bodies two interleaved requests send: 89% and 90%, no override
ConcAssetInputs == {d \in AssetInputs : d.progressPercentage \in {89, 90}}

\* pronunciation scores handed to recordPronunciationAttempt
AttemptScores == {80, 90, 120}

\* finalScore of POST /progress/units/:unitId/complete (Undefined: no override)
FinalScores == {Undefined, Rat(0, 1), Rat(189, 2), Rat(121, 1)}

\* what one specification lets its requests address
SeqScope ==
    [procs |-> {"p1"},
     pairs |-> {<<"A", "u1">>, <<"A", "u2">>, <<"B", "u1">>},
     assets |-> Assets, assetInputs |-> AssetInputs,
     attemptScores |-> AttemptScores, finalScores |-> FinalScores,
     maxCalls |-> MaxCalls]
ConcScope ==
    [procs |-> Procs,
     pairs |-> {<<"A", "u1">>},
     assets |-> {"a1"}, assetInputs |-> ConcAssetInputs,
     attemptScores |-> {80, 90}, finalScores |-> {Undefined, Rat(189, 2)},
     maxCalls |-> MaxConcCalls]

----------------------------------------------------------------------------
(* Request bookkeeping *)

Running(q) == q.pc \notin {"idle", "done", "failed", "rejected"}

\* the request has returned: only its arguments, its clock reading and its
\* result are kept
Returned(q, res) ==
    [IdleProc EXCEPT !.pc = "done", !.op = q.op, !.callId = q.callId,
                     !.userId = q.userId, !.unitId = q.unitId, !.assetId = q.assetId,
                     !.data = q.data, !.finalScore = q.finalScore,
                     !.attemptScore = q.attemptScore, !.now = q.now,
                     !.score = q.score, !.storyId = q.storyId,
                     !.retry = q.retry, !.request = q.request, !.result = res]

\* catch (error) { throw new Error(`Failed to ...: ${errorMessage}`) }: whatever
\* was thrown inside the try block leaves the operation as a plain Error
ThrownWith(q, cause) ==
    [Returned(q, NoResult) EXCEPT
        !.pc = "failed",
        !.error = [kind |-> "Error", op |-> q.op, cause |-> cause]]

\* mutant: catch (error) { return undefined }, the failure swallowed
ThrownSwallowed(q) == Returned(q, NoResult)

\* a store call rejected by Prisma
Thrown(q) == ThrownWith(q, "store")

CanBegin(p, scope) ==
    /\ p \in scope.procs
    /\ ~Running(procs[p])
    /\ clock < scope.maxCalls

Invoke(p, op, pc, userId, unitId, assetId, data, finalScore, attemptScore) ==
    /\ clock' = clock + 1
    /\ procs' = [procs EXCEPT ![p] =
          [IdleProc EXCEPT !.pc = pc, !.op = op, !.callId = clock + 1,
                           !.userId = userId, !.unitId = unitId, !.assetId = assetId,
                           !.data = data, !.finalScore = finalScore,
                           !.attemptScore = attemptScore]]
    /\ UNCHANGED <<userProgress, unitAssetProgress, pronunciationAttempt, dailyPlanEntry>>

----------------------------------------------------------------------------
(* startUnit *)

\* mutant: `if (existing) update` without the startedAt test
StartUnitBranchAlways(existing) ==
    IF existing.exists THEN "su_update" ELSE "su_create"

\* mutant: startUnit returns what findUnique gave, row or null
StartUnitBranchSkip(existing) == "su_return"

\* what startUnit does after findUnique resolved with `existing`
StartUnitBranch(existing) ==
    IF existing.exists
    THEN IF existing.startedAt = Null THEN "su_update" ELSE "su_return"
    ELSE "su_create"

\* userProgress.create({ data: { userId, unitId, startedAt: now } })
CreatedUserProgress(now) ==
    [exists |-> TRUE, startedAt |-> now, completed |-> FALSE,
     completedAt |-> Null, score |-> 0]

\* where the caller of startUnit resumes with the row startUnit returned
AfterStartUnit(q, row) ==
    CASE q.op = "startUnit" -> Returned(q, [NoResult EXCEPT !.progress = row])
      [] q.op = "updateAssetProgress" -> [q EXCEPT !.pc = "uap_find"]
      [] q.op = "recordPronunciationAttempt" -> [q EXCEPT !.pc = "rpa_create"]
      [] OTHER -> [q EXCEPT !.pc = "cu_assets"]

BeginStartUnit(p, scope) ==
    /\ CanBegin(p, scope)
    /\ \E k \in scope.pairs :
          Invoke(p, "startUnit", "su_find", k[1], k[2], "a1", NoData, Undefined, 0)

\* await userProgress.findUnique; const now = new Date()
StartUnitFind(p) ==
    LET q == procs[p]
        existing == userProgress[<<q.userId, q.unitId>>]
        q1 == [q EXCEPT !.now = clock]
        branch == StartUnitBranch(existing)
    IN  /\ q.pc = "su_find"
        /\ procs' = [procs EXCEPT ![p] =
              IF branch = "su_return" THEN AfterStartUnit(q1, existing)
              ELSE [q1 EXCEPT !.pc = branch]]
        /\ UNCHANGED <<userProgress, unitAssetProgress, pronunciationAttempt,
                       dailyPlanEntry, clock>>

\* await userProgress.create: the unique index on (userId, unitId) rejects a
\* second row for the key
StartUnitCreate(p) ==
    LET q == procs[p]
        k == <<q.userId, q.unitId>>
        row == CreatedUserProgress(q.now)
    IN  /\ q.pc = "su_create"
        /\ IF userProgress[k].exists
           THEN /\ procs' = [procs EXCEPT ![p] = Thrown(q)]
                /\ UNCHANGED userProgress
           ELSE /\ userProgress' = [userProgress EXCEPT ![k] = row]
                /\ procs' = [procs EXCEPT ![p] = AfterStartUnit(q, row)]
        /\ UNCHANGED <<unitAssetProgress, pronunciationAttempt, dailyPlanEntry, clock>>

\* await userProgress.update({ data: { startedAt: now } })
StartUnitUpdate(p) ==
    LET q == procs[p]
        k == <<q.userId, q.unitId>>
        row == [userProgress[k] EXCEPT !.startedAt = q.now]
    IN  /\ q.pc = "su_update"
        /\ IF ~userProgress[k].exists
           THEN /\ procs' = [procs EXCEPT ![p] = Thrown(q)]
                /\ UNCHANGED userProgress
           ELSE /\ userProgress' = [userProgress EXCEPT ![k] = row]
                /\ procs' = [procs EXCEPT ![p] = AfterStartUnit(q, row)]
        /\ UNCHANGED <<unitAssetProgress, pronunciationAttempt, dailyPlanEntry, clock>>

----------------------------------------------------------------------------
(* updateAssetProgress *)

\* Math.max(0, Math.floor(data.secondsWatched))
SecondsWatched(data) == Max(0, MathFloor(data.secondsWatched))

\* mutant: the percentage stored as it was sent
ProgressPercentageRaw(data) == data.progressPercentage

\* Math.min(Math.max(data.progressPercentage, 0), 100)
ProgressPercentage(data) == Clamp(data.progressPercentage)

\* Math.max(0, Math.floor(data.durationSeconds)) when it is supplied
DurationSeconds(data) == Max(0, MathFloor(data.durationSeconds))

\* the completion threshold of `progressPercentage >= 90`
CompletionThreshold == 90

\* mutant: data.completed || progressPercentage >= 90
IsCompletedOr(data) ==
    data.completed = "true" \/ ProgressPercentage(data) >= CompletionThreshold

\* data.completed ?? progressPercentage >= 90
IsCompleted(data) ==
    IF data.completed = "undefined"
    THEN ProgressPercentage(data) >= CompletionThreshold
    ELSE data.completed = "true"

\* mutant: the create branch's `isCompleted ? new Date() : null` used on update
UpdateCompletedAtReset(existing, isCompleted, now) ==
    IF isCompleted THEN now ELSE Null

\* isCompleted ? existing.completedAt ?? new Date() : existing.completedAt ?? null
UpdateCompletedAt(existing, isCompleted, now) ==
    IF isCompleted
    THEN IF existing.completedAt # Null THEN existing.completedAt ELSE now
    ELSE existing.completedAt

\* the row after unitAssetProgress.update: an undefined durationSeconds
\* leaves the column as it is
\* mutant: a completed row stays completed whatever the new percentage
UpdatedAssetProgressSticky(current, existing, data, now) ==
    [current EXCEPT
        !.secondsWatched = SecondsWatched(data),
        !.progressPercentage = ProgressPercentage(data),
        !.durationSeconds =
            IF IsDefined(data.durationSeconds) THEN DurationSeconds(data) ELSE @,
        !.completed = IsCompleted(data) \/ existing.completed,
        !.completedAt = UpdateCompletedAt(existing, IsCompleted(data), now)]

UpdatedAssetProgress(current, existing, data, now) ==
    [current EXCEPT
        !.secondsWatched = SecondsWatched(data),
        !.progressPercentage = ProgressPercentage(data),
        !.durationSeconds =
            IF IsDefined(data.durationSeconds) THEN DurationSeconds(data) ELSE @,
        !.completed = IsCompleted(data),
        !.completedAt = UpdateCompletedAt(existing, IsCompleted(data), now)]

\* the row of unitAssetProgress.create
CreatedAssetProgress(unitId, data, now) ==
    [exists |-> TRUE, unitId |-> unitId,
     progressPercentage |-> ProgressPercentage(data),
     secondsWatched |-> SecondsWatched(data),
     durationSeconds |->
        IF IsDefined(data.durationSeconds) THEN DurationSeconds(data) ELSE NullInt,
     completed |-> IsCompleted(data),
     completedAt |-> IF IsCompleted(data) THEN now ELSE Null]

\* the route passes asset.unitId as the unit of the asset
BeginUpdateAssetProgress(p, scope) ==
    /\ CanBegin(p, scope)
    /\ \E k \in scope.pairs, a \in scope.assets, d \in scope.assetInputs :
          /\ unitAsset[a].unitId = k[2]
          /\ Invoke(p, "updateAssetProgress", "su_find", k[1], k[2], a,
                    d, Undefined, 0)

\* await unitAssetProgress.findUnique
UpdateAssetProgressFind(p) ==
    LET q == procs[p]
        existing == unitAssetProgress[<<q.userId, q.assetId>>]
    IN  /\ q.pc = "uap_find"
        /\ procs' = [procs EXCEPT ![p] =
              [q EXCEPT !.existing = existing, !.now = clock,
                        !.pc = IF existing.exists THEN "uap_update" ELSE "uap_create"]]
        /\ UNCHANGED <<userProgress, unitAssetProgress, pronunciationAttempt,
                       dailyPlanEntry, clock>>

\* await unitAssetProgress.update
UpdateAssetProgressUpdate(p) ==
    LET q == procs[p]
        k == <<q.userId, q.assetId>>
        row == UpdatedAssetProgress(unitAssetProgress[k], q.existing, q.data, q.now)
    IN  /\ q.pc = "uap_update"
        /\ IF ~unitAssetProgress[k].exists
           THEN /\ procs' = [procs EXCEPT ![p] = Thrown(q)]
                /\ UNCHANGED unitAssetProgress
           ELSE /\ unitAssetProgress' = [unitAssetProgress EXCEPT ![k] = row]
                /\ procs' = [procs EXCEPT ![p] =
                      Returned(q, [NoResult EXCEPT !.assetProgress = row])]
        /\ UNCHANGED <<userProgress, pronunciationAttempt, dailyPlanEntry, clock>>

\* await unitAssetProgress.create: the unique index on (userId, assetId)
\* rejects a second row for the key
UpdateAssetProgressCreate(p) ==
    LET q == procs[p]
        k == <<q.userId, q.assetId>>
        row == CreatedAssetProgress(q.unitId, q.data, q.now)
    IN  /\ q.pc = "uap_create"
        /\ IF unitAssetProgress[k].exists
           THEN /\ procs' = [procs EXCEPT ![p] = Thrown(q)]
                /\ UNCHANGED unitAssetProgress
           ELSE /\ unitAssetProgress' = [unitAssetProgress EXCEPT ![k] = row]
                /\ procs' = [procs EXCEPT ![p] =
                      Returned(q, [NoResult EXCEPT !.assetProgress = row])]
        /\ UNCHANGED <<userProgress, pronunciationAttempt, dailyPlanEntry, clock>>

----------------------------------------------------------------------------
(* recordPronunciationAttempt *)

\* pronunciationAttempt.findMany({ where: { userId, unitId } })
PronunciationAttemptFindMany(userId, unitId) ==
    pronunciationAttempt[<<userId, unitId>>]

ScoresOf(attempts) == [i \in 1..Len(attempts) |-> attempts[i].score]

\* mutant: the score of the latest attempt returned as the average
AverageScoreLatest(attempts) ==
    IF attempts = <<>> THEN Undefined ELSE Rat(attempts[Len(attempts)].score, 1)

\* attempts.reduce((sum, a) => sum + a.score, 0) / attempts.length
AverageScore(attempts) == Rat(SumSeq(ScoresOf(attempts)), Len(attempts))

\* mutant: an upsert that overwrites the learner's latest attempt for the unit
MergeAttempt(log, attempt) ==
    IF log = <<>> THEN <<attempt>> ELSE [log EXCEPT ![Len(log)] = attempt]

\* the table after pronunciationAttempt.create: one more row
AppendAttempt(log, attempt) == Append(log, attempt)

\* the row of pronunciationAttempt.create; the request's id stands for the
\* generated primary key
CreatedAttempt(q) == [id |-> q.callId, score |-> Clamp(q.attemptScore)]

BeginRecordPronunciationAttempt(p, scope) ==
    /\ CanBegin(p, scope)
    /\ \E k \in scope.pairs, s \in scope.attemptScores :
          Invoke(p, "recordPronunciationAttempt", "su_find", k[1], k[2], "a1",
                 NoData, Undefined, s)

\* await pronunciationAttempt.create
RecordAttemptCreate(p) ==
    LET q == procs[p]
        k == <<q.userId, q.unitId>>
        attempt == CreatedAttempt(q)
    IN  /\ q.pc = "rpa_create"
        /\ pronunciationAttempt' =
              [pronunciationAttempt EXCEPT ![k] = AppendAttempt(@, attempt)]
        /\ procs' = [procs EXCEPT ![p] =
              [q EXCEPT !.pc = "rpa_find", !.result.attempt = attempt]]
        /\ UNCHANGED <<userProgress, unitAssetProgress, dailyPlanEntry, clock>>

\* await pronunciationAttempt.findMany, then the average and the count
RecordAttemptFindMany(p) ==
    LET q == procs[p]
        attempts == PronunciationAttemptFindMany(q.userId, q.unitId)
    IN  /\ q.pc = "rpa_find"
        /\ procs' = [procs EXCEPT ![p] =
              Returned(q, [NoResult EXCEPT !.attempt = q.result.attempt,
                                           !.averageScore = AverageScore(attempts),
                                           !.attemptCount = Len(attempts)])]
        /\ UNCHANGED <<userProgress, unitAssetProgress, pronunciationAttempt,
                       dailyPlanEntry, clock>>

----------------------------------------------------------------------------
(* calculateUnitScore *)

RatAdd(x, y) == Rat(x.n * y.d + y.n * x.d, x.d * y.d)
RatDivInt(x, k) == Rat(x.n, x.d * k)

\* mutant: unitAssetProgress.findMany({ where: { unitId } }), the rows of every
\* learner folded into the one progressMap
ProgressMapOfAnyLearner(userId, unitId) ==
    LET holders(a) == {u \in Users :
                         /\ unitAssetProgress[<<u, a>>].exists
                         /\ unitAssetProgress[<<u, a>>].unitId = unitId}
        found == {a \in Assets : holders(a) # {}}
    IN  [a \in found |->
            Clamp(unitAssetProgress[<<CHOOSE u \in holders(a) : TRUE, a>>].progressPercentage)]

\* unitAssetProgress.findMany({ where: { userId, unitId } }) folded into
\* progressMap: assetId -> clamped progressPercentage
ProgressMapOf(userId, unitId) ==
    LET found == {a \in Assets :
                    /\ unitAssetProgress[<<userId, a>>].exists
                    /\ unitAssetProgress[<<userId, a>>].unitId = unitId}
    IN  [a \in found |-> Clamp(unitAssetProgress[<<userId, a>>].progressPercentage)]

\* mutant: the average over the assets the learner touched
AssetScoreTouched(assets, progressMap) ==
    LET touched == {i \in 1..Len(assets) : assets[i] \in DOMAIN progressMap}
    IN  IF touched = {} THEN Rat(0, 1)
        ELSE Rat(SumSeq([i \in 1..Len(assets) |->
                           IF assets[i] \in DOMAIN progressMap
                           THEN progressMap[assets[i]] ELSE 0]),
                 Cardinality(touched))

\* totalAssetScore / assets.length
AssetScore(assets, progressMap) ==
    Rat(SumSeq([i \in 1..Len(assets) |->
                   IF assets[i] \in DOMAIN progressMap
                   THEN progressMap[assets[i]] ELSE 0]),
        Len(assets))

\* totalPronScore / attempts.length
PronScore(attemptScores) == Rat(SumSeq(attemptScores), Len(attemptScores))

\* mutant: (assetScore + pronScore) / 2 whatever components exist
UnitScoreHalves(assets, progressMap, attemptScores) ==
    MathRound(RatDivInt(
        RatAdd(IF Len(assets) > 0 THEN AssetScore(assets, progressMap) ELSE Rat(0, 1),
               IF Len(attemptScores) > 0 THEN PronScore(attemptScores) ELSE Rat(0, 1)),
        2))

\* the components array reduced and rounded
UnitScore(assets, progressMap, attemptScores) ==
    LET hasAssets == Len(assets) > 0
        hasAttempts == Len(attemptScores) > 0
    IN  IF hasAssets /\ hasAttempts
        THEN MathRound(RatDivInt(RatAdd(AssetScore(assets, progressMap),
                                        PronScore(attemptScores)), 2))
        ELSE IF hasAssets THEN MathRound(AssetScore(assets, progressMap))
        ELSE IF hasAttempts THEN MathRound(PronScore(attemptScores))
        ELSE 0

\* the caller of calculateUnitScore resumes once both reads have resolved:
\* completeUnit clamps and rounds the score again
AfterCalculateUnitScore(q) ==
    LET score == UnitScore(UnitAssetFindMany(q.unitId), q.progressMap, q.attemptScores)
    IN  IF q.op = "calculateUnitScore"
        THEN Returned(q, [NoResult EXCEPT !.score = score])
        ELSE [q EXCEPT !.score = MathRound(ClampRat(Rat(score, 1))), !.pc = "cu_write"]

BeginCalculateUnitScore(p, scope) ==
    /\ CanBegin(p, scope)
    /\ \E k \in scope.pairs :
          Invoke(p, "calculateUnitScore", "cus_read", k[1], k[2], "a1",
                 NoData, Undefined, 0)

\* the unitAssetProgress.findMany of the Promise.all resolves
CalculateReadProgress(p) ==
    LET q == procs[p]
        q1 == [q EXCEPT !.progressRead = TRUE,
                        !.progressMap = ProgressMapOf(q.userId, q.unitId)]
    IN  /\ q.pc = "cus_read"
        /\ ~q.progressRead
        /\ procs' = [procs EXCEPT ![p] =
              IF q.attemptsRead THEN AfterCalculateUnitScore(q1) ELSE q1]
        /\ UNCHANGED <<userProgress, unitAssetProgress, pronunciationAttempt,
                       dailyPlanEntry, clock>>

\* the pronunciationAttempt.findMany of the Promise.all resolves
CalculateReadAttempts(p) ==
    LET q == procs[p]
        q1 == [q EXCEPT !.attemptsRead = TRUE,
                        !.attemptScores =
                            ScoresOf(PronunciationAttemptFindMany(q.userId, q.unitId))]
    IN  /\ q.pc = "cus_read"
        /\ ~q.attemptsRead
        /\ procs' = [procs EXCEPT ![p] =
              IF q.progressRead THEN AfterCalculateUnitScore(q1) ELSE q1]
        /\ UNCHANGED <<userProgress, unitAssetProgress, pronunciationAttempt,
                       dailyPlanEntry, clock>>

----------------------------------------------------------------------------
(* completeUnit *)

\* !existingProgress.completed || existingProgress.progressPercentage < 100
\*   || !existingProgress.completedAt
\* mutant: a row marked completed is taken as it is
NeedsForceFillIncomplete(existing) == ~existing.completed

NeedsForceFill(existing) ==
    \/ ~existing.completed
    \/ existing.progressPercentage < 100
    \/ existing.completedAt = Null

\* mutant: the force-fill inserts the row without looking at the lookup
ForceFillBranchInsert(existing) == "cu_create"

\* what the force-fill does with an asset after findUnique resolved
ForceFillBranch(existing) ==
    IF existing.exists
    THEN IF NeedsForceFill(existing) THEN "cu_update" ELSE "cu_next"
    ELSE "cu_create"

\* durationSeconds: (existingProgress?.durationSeconds ?? asset.duration ??
\* null) ?? undefined, an undefined leaving the column as it is
ForceFilledDuration(column, existing, asset) ==
    LET durationSeconds ==
            IF existing.durationSeconds # NullInt THEN existing.durationSeconds
            ELSE asset.duration
    IN  IF durationSeconds # NullInt THEN durationSeconds ELSE column

\* mutant: the force-fill stamps completedAt: now on every row it updates
ForceFilledUpdateNow(current, existing, asset, now) ==
    [current EXCEPT
        !.completed = TRUE,
        !.progressPercentage = 100,
        !.secondsWatched = existing.secondsWatched,
        !.durationSeconds = ForceFilledDuration(@, existing, asset),
        !.completedAt = now]

\* the row after the force-fill update of an existing row
ForceFilledUpdate(current, existing, asset, now) ==
    [current EXCEPT
        !.completed = TRUE,
        !.progressPercentage = 100,
        !.secondsWatched = existing.secondsWatched,
        !.durationSeconds = ForceFilledDuration(@, existing, asset),
        !.completedAt =
            IF existing.completedAt # Null THEN existing.completedAt ELSE now]

\* the row of the force-fill create: asset.duration ?? 0 and asset.duration ?? null
ForceFilledCreate(unitId, asset, now) ==
    [exists |-> TRUE, unitId |-> unitId, progressPercentage |-> 100,
     secondsWatched |-> IF asset.duration # NullInt THEN asset.duration ELSE 0,
     durationSeconds |-> asset.duration,
     completed |-> TRUE, completedAt |-> now]

\* mutant: Math.round(score), the override not clamped
OverrideScoreRounded(finalScore) == MathRound(finalScore)

\* let score = finalScore; ... Math.round(Math.min(Math.max(score, 0), 100))
OverrideScore(finalScore) == MathRound(ClampRat(finalScore))

\* mutant: userProgress.update({ completed: true, score }), no timestamp
\* mutant: data: { completed: !current.completed, ... }
CompletedUserProgressToggle(current, now, score) ==
    [current EXCEPT !.completed = ~current.completed, !.completedAt = now,
                    !.score = score]

CompletedUserProgressNoStamp(current, now, score) ==
    [current EXCEPT !.completed = TRUE, !.score = score]

\* the row after userProgress.update({ completed: true, completedAt: now, score })
CompletedUserProgress(current, now, score) ==
    [current EXCEPT !.completed = TRUE, !.completedAt = now, !.score = score]

\* mutant: only entries not yet completed are written
EntryNeedsUpdateIncomplete(entry, score) == ~entry.completed

\* !entry.completed || entry.score !== score
EntryNeedsUpdate(entry, score) == ~entry.completed \/ entry.score # score

\* dailyPlanEntry.update({ data: { completed: true, score } })
UpdatedEntry(current, score) == [current EXCEPT !.completed = TRUE, !.score = score]

\* mutant: findMany({ where: { unitId } }), the entries of every learner
DailyPlanEntryFindManyAnyLearner(userId, unitId) ==
    LET mine == SelectSeq(EntryOrder, LAMBDA e : entryUnit[e] = unitId)
    IN  [i \in 1..Len(mine) |->
            [id |-> mine[i], completed |-> dailyPlanEntry[mine[i]].completed,
             score |-> dailyPlanEntry[mine[i]].score]]

\* dailyPlanEntry.findMany({ where: { unitId, dailyPlan: { userId } } })
DailyPlanEntryFindMany(userId, unitId) ==
    LET mine == SelectSeq(EntryOrder,
                    LAMBDA e : entryOwner[e] = userId /\ entryUnit[e] = unitId)
    IN  [i \in 1..Len(mine) |->
            [id |-> mine[i], completed |-> dailyPlanEntry[mine[i]].completed,
             score |-> dailyPlanEntry[mine[i]].score]]

\* mutant: `finalScore ? finalScore : await calculateUnitScore(...)`
AfterAssetTruthy(q) ==
    IF q.todo # <<>>
    THEN [q EXCEPT !.pc = "cu_find"]
    ELSE IF IsDefined(q.finalScore) /\ q.finalScore.n # 0
         THEN [q EXCEPT !.score = OverrideScore(q.finalScore), !.pc = "cu_write"]
         ELSE [q EXCEPT !.pc = "cus_read"]

\* mutant: an override is persisted before the remaining assets are filled
AfterAssetEarly(q) ==
    IF IsDefined(q.finalScore)
    THEN [q EXCEPT !.score = OverrideScore(q.finalScore), !.pc = "cu_write"]
    ELSE IF q.todo # <<>> THEN [q EXCEPT !.pc = "cu_find"]
         ELSE [q EXCEPT !.pc = "cus_read"]

\* the for loop over assets reaches its next await, or the score is determined
AfterAsset(q) ==
    IF q.todo # <<>>
    THEN [q EXCEPT !.pc = "cu_find"]
    ELSE IF IsDefined(q.finalScore)
         THEN [q EXCEPT !.score = OverrideScore(q.finalScore), !.pc = "cu_write"]
         ELSE [q EXCEPT !.pc = "cus_read"]

RECURSIVE SkipEntries(_, _)
\* the entries the for loop passes without a write
SkipEntries(entries, score) ==
    IF entries # <<>> /\ ~EntryNeedsUpdate(Head(entries), score)
    THEN SkipEntries(Tail(entries), score)
    ELSE entries

\* the for loop over dailyPlanEntries reaches its next await, or returns
AfterEntry(q, entries) ==
    LET rest == SkipEntries(entries, q.score)
    IN  IF rest # <<>>
        THEN [q EXCEPT !.entries = rest, !.pc = "cu_entry"]
        ELSE Returned(q, [NoResult EXCEPT !.progress = q.result.progress,
                                          !.score = q.score,
                                          !.dailyPlanUpdated = q.planFound])

BeginCompleteUnit(p, scope) ==
    /\ CanBegin(p, scope)
    /\ \E k \in scope.pairs, f \in scope.finalScores :
          Invoke(p, "completeUnit", "su_find", k[1], k[2], "a1", NoData, f, 0)

\* const now = new Date(); await unitAsset.findMany
CompleteUnitAssets(p) ==
    LET q == procs[p]
    IN  /\ q.pc = "cu_assets"
        /\ procs' = [procs EXCEPT ![p] =
              AfterAsset([q EXCEPT !.now = clock, !.todo = UnitAssetFindMany(q.unitId)])]
        /\ UNCHANGED <<userProgress, unitAssetProgress, pronunciationAttempt,
                       dailyPlanEntry, clock>>

\* await unitAssetProgress.findUnique for the next asset
CompleteUnitFind(p) ==
    LET q == procs[p]
        existing == unitAssetProgress[<<q.userId, Head(q.todo)>>]
    IN  /\ q.pc = "cu_find"
        /\ procs' = [procs EXCEPT ![p] =
              CASE ForceFillBranch(existing) = "cu_update" ->
                      [q EXCEPT !.existing = existing, !.pc = "cu_update"]
                [] ForceFillBranch(existing) = "cu_next" ->
                      AfterAsset([q EXCEPT !.todo = Tail(q.todo)])
                [] OTHER -> [q EXCEPT !.pc = "cu_create"]]
        /\ UNCHANGED <<userProgress, unitAssetProgress, pronunciationAttempt,
                       dailyPlanEntry, clock>>

\* await unitAssetProgress.update of the force-fill
CompleteUnitUpdate(p) ==
    LET q == procs[p]
        k == <<q.userId, Head(q.todo)>>
        row == ForceFilledUpdate(unitAssetProgress[k], q.existing,
                                 unitAsset[Head(q.todo)], q.now)
    IN  /\ q.pc = "cu_update"
        /\ IF ~unitAssetProgress[k].exists
           THEN /\ procs' = [procs EXCEPT ![p] = Thrown(q)]
                /\ UNCHANGED unitAssetProgress
           ELSE /\ unitAssetProgress' = [unitAssetProgress EXCEPT ![k] = row]
                /\ procs' = [procs EXCEPT ![p] =
                      AfterAsset([q EXCEPT !.todo = Tail(q.todo),
                                           !.existing = NoAssetProgress])]
        /\ UNCHANGED <<userProgress, pronunciationAttempt, dailyPlanEntry, clock>>

\* await unitAssetProgress.create of the force-fill
CompleteUnitCreate(p) ==
    LET q == procs[p]
        k == <<q.userId, Head(q.todo)>>
        row == ForceFilledCreate(q.unitId, unitAsset[Head(q.todo)], q.now)
    IN  /\ q.pc = "cu_create"
        /\ IF unitAssetProgress[k].exists
           THEN /\ procs' = [procs EXCEPT ![p] = Thrown(q)]
                /\ UNCHANGED unitAssetProgress
           ELSE /\ unitAssetProgress' = [unitAssetProgress EXCEPT ![k] = row]
                /\ procs' = [procs EXCEPT ![p] =
                      AfterAsset([q EXCEPT !.todo = Tail(q.todo)])]
        /\ UNCHANGED <<userProgress, pronunciationAttempt, dailyPlanEntry, clock>>

\* await userProgress.update
CompleteUnitWrite(p) ==
    LET q == procs[p]
        k == <<q.userId, q.unitId>>
        row == CompletedUserProgress(userProgress[k], q.now, q.score)
    IN  /\ q.pc = "cu_write"
        /\ IF ~userProgress[k].exists
           THEN /\ procs' = [procs EXCEPT ![p] = Thrown(q)]
                /\ UNCHANGED userProgress
           ELSE /\ userProgress' = [userProgress EXCEPT ![k] = row]
                /\ procs' = [procs EXCEPT ![p] =
                      [q EXCEPT !.pc = "cu_entries", !.result.progress = row,
                                !.progressRead = FALSE, !.attemptsRead = FALSE,
                                !.progressMap = IdleProc.progressMap,
                                !.attemptScores = <<>>]]
        /\ UNCHANGED <<unitAssetProgress, pronunciationAttempt, dailyPlanEntry, clock>>

\* await dailyPlanEntry.findMany
CompleteUnitEntries(p) ==
    LET q == procs[p]
        found == DailyPlanEntryFindMany(q.userId, q.unitId)
    IN  /\ q.pc = "cu_entries"
        /\ procs' = [procs EXCEPT ![p] =
              AfterEntry([q EXCEPT !.planFound = Len(found) > 0], found)]
        /\ UNCHANGED <<userProgress, unitAssetProgress, pronunciationAttempt,
                       dailyPlanEntry, clock>>

\* await dailyPlanEntry.update
CompleteUnitEntryUpdate(p) ==
    LET q == procs[p]
        e == Head(q.entries).id
    IN  /\ q.pc = "cu_entry"
        /\ dailyPlanEntry' =
              [dailyPlanEntry EXCEPT ![e] = UpdatedEntry(@, q.score)]
        /\ procs' = [procs EXCEPT ![p] = AfterEntry(q, Tail(q.entries))]
        /\ UNCHANGED <<userProgress, unitAssetProgress, pronunciationAttempt, clock>>

----------------------------------------------------------------------------
(* getStoryProgress *)

\* the message of the Error thrown for a story without units
StoryNotFound == "Story not found or has no units"

\* one callback of units.map(async (unit) => ...) before its first await
UnitRead(unitId) ==
    [unitId |-> unitId, stage |-> 0, progress |-> NoUserProgress, attempts |-> <<>>]

\* the object one callback returns
UnitWithProgress(read) ==
    [unitId |-> read.unitId,
     completed |-> read.progress.exists /\ read.progress.completed,
     score |-> IF read.progress.exists THEN read.progress.score ELSE 0,
     startedAt |-> IF read.progress.exists THEN read.progress.startedAt ELSE Null,
     completedAt |-> IF read.progress.exists THEN read.progress.completedAt ELSE Null,
     pronunciationAttempts |-> Len(read.attempts),
     averagePronunciationScore |->
        IF Len(read.attempts) > 0
        THEN Rat(SumSeq(read.attempts), Len(read.attempts)) ELSE Rat(0, 1)]

\* mutant: only the units the learner has a row for are reported
StoryProgressOfTouched(reads) ==
    LET touched == SelectSeq(reads, LAMBDA r : r.progress.exists)
        units == [i \in 1..Len(touched) |-> UnitWithProgress(touched[i])]
        completedWithScores == SelectSeq(units, LAMBDA u : u.completed)
        scores == [i \in 1..Len(completedWithScores) |-> completedWithScores[i].score]
    IN  [totalUnits |-> Len(units),
         completedUnits |-> Len(completedWithScores),
         averageScore |->
            IF Len(completedWithScores) > 0
            THEN MathRound(Rat(SumSeq(scores), Len(completedWithScores))) ELSE 0,
         units |-> units]

\* totalUnits, completedUnits and the rounded mean score of the completed units
StoryProgressOf(reads) ==
    LET units == [i \in 1..Len(reads) |-> UnitWithProgress(reads[i])]
        completedWithScores == SelectSeq(units, LAMBDA u : u.completed)
        scores == [i \in 1..Len(completedWithScores) |-> completedWithScores[i].score]
    IN  [totalUnits |-> Len(units),
         completedUnits |-> Len(completedWithScores),
         averageScore |->
            IF Len(completedWithScores) > 0
            THEN MathRound(Rat(SumSeq(scores), Len(completedWithScores))) ELSE 0,
         units |-> units]

\* the route has found the story before it calls the service
BeginGetStoryProgress(p, scope) ==
    /\ CanBegin(p, scope)
    /\ \E k \in scope.pairs, s \in Stories :
          /\ clock' = clock + 1
          /\ procs' = [procs EXCEPT ![p] =
                [IdleProc EXCEPT !.pc = "gsp_units", !.op = "getStoryProgress",
                                 !.callId = clock + 1, !.userId = k[1],
                                 !.storyId = s]]
    /\ UNCHANGED <<userProgress, unitAssetProgress, pronunciationAttempt, dailyPlanEntry>>

\* await unit.findMany; if (units.length === 0) throw new Error(...)
GetStoryProgressUnits(p) ==
    LET q == procs[p]
        units == UnitFindMany(q.storyId)
    IN  /\ q.pc = "gsp_units"
        /\ procs' = [procs EXCEPT ![p] =
              IF Len(units) = 0
              THEN ThrownWith(q, StoryNotFound)
              ELSE [q EXCEPT !.pc = "gsp_read",
                             !.unitReads = [i \in 1..Len(units) |-> UnitRead(units[i])]]]
        /\ UNCHANGED <<userProgress, unitAssetProgress, pronunciationAttempt,
                       dailyPlanEntry, clock>>

\* the userProgress.findUnique of one callback of the Promise.all resolves
GetStoryProgressFindUnique(p) ==
    LET q == procs[p]
    IN  /\ q.pc = "gsp_read"
        /\ \E i \in 1..Len(q.unitReads) :
              /\ q.unitReads[i].stage = 0
              /\ procs' = [procs EXCEPT ![p] =
                    [q EXCEPT !.unitReads[i].stage = 1,
                              !.unitReads[i].progress =
                                  userProgress[<<q.userId, q.unitReads[i].unitId>>]]]
        /\ UNCHANGED <<userProgress, unitAssetProgress, pronunciationAttempt,
                       dailyPlanEntry, clock>>

\* the pronunciationAttempt.findMany of one callback resolves; the operation
\* returns when the last callback has
GetStoryProgressFindMany(p) ==
    LET q == procs[p]
    IN  /\ q.pc = "gsp_read"
        /\ \E i \in 1..Len(q.unitReads) :
              LET reads == [q.unitReads EXCEPT
                              ![i].stage = 2,
                              ![i].attempts = ScoresOf(PronunciationAttemptFindMany(
                                                  q.userId, q.unitReads[i].unitId))]
              IN  /\ q.unitReads[i].stage = 1
                  /\ procs' = [procs EXCEPT ![p] =
                        IF \A j \in 1..Len(reads) : reads[j].stage = 2
                        THEN Returned(q, [NoResult EXCEPT !.story = StoryProgressOf(reads)])
                        ELSE [q EXCEPT !.unitReads = reads]]
        /\ UNCHANGED <<userProgress, unitAssetProgress, pronunciationAttempt,
                       dailyPlanEntry, clock>>

----------------------------------------------------------------------------
(* getUserProgressSummary *)

\* userProgress.findMany({ where: { userId }, include: { unit } }): the rows
\* of the learner, each with its unit; the order by updatedAt is not
\* represented, no field of the summary kept here depends on it
UserProgressFindMany(userId) ==
    LET units == <<"u1", "u2">>
        all == [i \in 1..Len(units) |->
                  [unitId |-> units[i], storyId |-> unitStory[units[i]],
                   row |-> userProgress[<<userId, units[i]>>]]]
    IN  SelectSeq(all, LAMBDA x : x.row.exists)

\* pronunciationAttempt.findMany({ where: { userId } }): the scores of the
\* learner's attempts on every unit
PronunciationAttemptFindManyByUser(userId) ==
    ScoresOf(pronunciationAttempt[<<userId, "u1">>])
        \o ScoresOf(pronunciationAttempt[<<userId, "u2">>])

ScoresOfProgress(rows) == [i \in 1..Len(rows) |-> rows[i].row.score]

\* mutant: the mean taken over every row of the learner
SummaryOfAllRows(allProgress, attempts) ==
    LET completedProgress == SelectSeq(allProgress, LAMBDA x : x.row.completed)
        inProgress == SelectSeq(allProgress,
                          LAMBDA x : x.row.startedAt # Null /\ ~x.row.completed)
    IN  [NoSummary EXCEPT
            !.totalUnits = Len(allProgress),
            !.completedUnits = Len(completedProgress),
            !.inProgressUnits = Len(inProgress),
            !.averageScore =
                IF Len(allProgress) > 0
                THEN MathRound(Rat(SumSeq(ScoresOfProgress(allProgress)),
                                   Len(allProgress)))
                ELSE 0,
            !.totalPronunciationAttempts = Len(attempts)]

\* the counts and means of the summary, and the per-story grouping
SummaryOf(allProgress, attempts) ==
    LET completedProgress == SelectSeq(allProgress, LAMBDA x : x.row.completed)
        inProgress == SelectSeq(allProgress,
                          LAMBDA x : x.row.startedAt # Null /\ ~x.row.completed)
        storyIds == {allProgress[i].storyId : i \in 1..Len(allProgress)}
        ofStory(sid) == SelectSeq(allProgress, LAMBDA x : x.storyId = sid)
        doneOfStory(sid) == SelectSeq(ofStory(sid), LAMBDA x : x.row.completed)
    IN  [totalUnits |-> Len(allProgress),
         completedUnits |-> Len(completedProgress),
         inProgressUnits |-> Len(inProgress),
         averageScore |->
            IF Len(completedProgress) > 0
            THEN MathRound(Rat(SumSeq(ScoresOfProgress(completedProgress)),
                               Len(completedProgress)))
            ELSE 0,
         totalPronunciationAttempts |-> Len(attempts),
         averagePronunciationScore |->
            IF Len(attempts) > 0 THEN Rat(SumSeq(attempts), Len(attempts))
            ELSE Rat(0, 1),
         stories |->
            {[storyId |-> sid,
              completedUnits |-> Len(doneOfStory(sid)),
              totalUnits |-> Len(ofStory(sid)),
              averageScore |->
                 IF Len(doneOfStory(sid)) > 0
                 THEN MathRound(Rat(SumSeq(ScoresOfProgress(doneOfStory(sid))),
                                    Len(doneOfStory(sid))))
                 ELSE 0] : sid \in storyIds}]

\* GET /summary calls the service for the authenticated learner
BeginGetUserProgressSummary(p, scope) ==
    /\ CanBegin(p, scope)
    /\ \E k \in scope.pairs :
          /\ clock' = clock + 1
          /\ procs' = [procs EXCEPT ![p] =
                [IdleProc EXCEPT !.pc = "gups_progress",
                                 !.op = "getUserProgressSummary",
                                 !.callId = clock + 1, !.userId = k[1]]]
    /\ UNCHANGED <<userProgress, unitAssetProgress, pronunciationAttempt, dailyPlanEntry>>

\* await userProgress.findMany
GetUserProgressSummaryProgress(p) ==
    LET q == procs[p]
    IN  /\ q.pc = "gups_progress"
        /\ procs' = [procs EXCEPT ![p] =
              [q EXCEPT !.pc = "gups_attempts",
                        !.allProgress = UserProgressFindMany(q.userId)]]
        /\ UNCHANGED <<userProgress, unitAssetProgress, pronunciationAttempt,
                       dailyPlanEntry, clock>>

\* await pronunciationAttempt.findMany; the summary is built and returned
GetUserProgressSummaryAttempts(p) ==
    LET q == procs[p]
    IN  /\ q.pc = "gups_attempts"
        /\ procs' = [procs EXCEPT ![p] =
              Returned(q, [NoResult EXCEPT !.summary =
                  SummaryOf(q.allProgress,
                            PronunciationAttemptFindManyByUser(q.userId))])]
        /\ UNCHANGED <<userProgress, unitAssetProgress, pronunciationAttempt,
                       dailyPlanEntry, clock>>

----------------------------------------------------------------------------
(* The progress router: authentication and validation before the service *)

\* the requests the routes are driven with: with and without a user, with
\* known and unknown ids, with and without the required fields, with scores
\* inside and outside [0, 100]
RouteUsers == {"none"} \cup Users

StartRequests ==
    {[NoRequest EXCEPT !.route = "start", !.user = u, !.unitId = n] :
        u \in RouteUsers, n \in {"u1", "u2", "u9"}}

UpdateRequests ==
    {[NoRequest EXCEPT !.route = "update", !.user = u, !.assetId = a,
                       !.hasSecondsWatched = s, !.hasProgressPercentage = g,
                       !.data = d] :
        u \in RouteUsers, a \in {"a1", "a9"}, s \in BOOLEAN, g \in BOOLEAN,
        d \in ConcAssetInputs}

PronunciationRequests ==
    {[NoRequest EXCEPT !.route = "pronunciation", !.user = u, !.unitId = n,
                       !.audioKey = k, !.hasScore = h, !.score = v] :
        u \in RouteUsers, n \in {"u1", "u9"}, k \in {"undefined", "", "key"},
        h \in BOOLEAN, v \in {0 - 1, 80, 101}}

CompleteRequests ==
    {[NoRequest EXCEPT !.route = "complete", !.user = u, !.unitId = n,
                       !.finalScore = f] :
        u \in RouteUsers, n \in {"u1", "u2", "u9"},
        f \in {Undefined, Rat(0 - 1, 2), Rat(0, 1), Rat(189, 2), Rat(201, 2)}}

StoryRequests ==
    {[NoRequest EXCEPT !.route = "story", !.user = u, !.storyId = t] :
        u \in RouteUsers, t \in {"s1", "s2", "s9"}}

\* POST /units/:unitId/start: the status of the early return, 0 if the
\* handler reaches the service call
StartRouteStatus(req) ==
    IF req.user = "none" THEN 401
    ELSE IF req.unitId \notin Units THEN 404
    ELSE 0

\* POST /assets/:assetId/update
UpdateRouteStatus(req) ==
    IF req.user = "none" THEN 401
    ELSE IF ~req.hasSecondsWatched \/ ~req.hasProgressPercentage THEN 400
    ELSE IF req.assetId \notin Assets THEN 404
    ELSE 0

\* mutant: the range check on score left out
PronunciationRouteStatusNoRange(req) ==
    IF req.user = "none" THEN 401
    ELSE IF req.audioKey \in {"undefined", ""} \/ ~req.hasScore THEN 400
    ELSE IF req.unitId \notin Units THEN 404
    ELSE 0

\* POST /units/:unitId/pronunciation
PronunciationRouteStatus(req) ==
    IF req.user = "none" THEN 401
    ELSE IF req.audioKey \in {"undefined", ""} \/ ~req.hasScore THEN 400
    ELSE IF req.score < 0 \/ req.score > 100 THEN 400
    ELSE IF req.unitId \notin Units THEN 404
    ELSE 0

\* POST /units/:unitId/complete
CompleteRouteStatus(req) ==
    IF req.user = "none" THEN 401
    ELSE IF /\ IsDefined(req.finalScore)
            /\ \/ req.finalScore.n < 0
               \/ req.finalScore.n > 100 * req.finalScore.d
         THEN 400
    ELSE IF req.unitId \notin Units THEN 404
    ELSE 0

\* GET /stories/:storyId
StoryRouteStatus(req) ==
    IF req.user = "none" THEN 401
    ELSE IF req.storyId \notin Stories THEN 404
    ELSE 0

\* return c.json({ error }, status) before the service is called
Rejected(p, req, status) ==
    /\ clock' = clock + 1
    /\ procs' = [procs EXCEPT ![p] =
          [IdleProc EXCEPT !.pc = "rejected", !.callId = clock + 1,
                           !.request = req, !.status = status]]
    /\ UNCHANGED <<userProgress, unitAssetProgress, pronunciationAttempt, dailyPlanEntry>>

\* await <operation>(user.userId, ...): the handler calls the service
Accepted(p, req, op, pc, unitId, finalScore, attemptScore) ==
    /\ clock' = clock + 1
    /\ procs' = [procs EXCEPT ![p] =
          [IdleProc EXCEPT !.pc = pc, !.op = op, !.callId = clock + 1,
                           !.userId = req.user, !.unitId = unitId,
                           !.assetId = req.assetId, !.storyId = req.storyId,
                           !.data = req.data, !.finalScore = finalScore,
                           !.attemptScore = attemptScore, !.request = req]]
    /\ UNCHANGED <<userProgress, unitAssetProgress, pronunciationAttempt, dailyPlanEntry>>

RouteStartUnit(p, scope) ==
    /\ CanBegin(p, scope)
    /\ \E req \in StartRequests :
          IF StartRouteStatus(req) # 0
          THEN Rejected(p, req, StartRouteStatus(req))
          ELSE Accepted(p, req, "startUnit", "su_find", req.unitId, Undefined, 0)

RouteUpdateAssetProgress(p, scope) ==
    /\ CanBegin(p, scope)
    /\ \E req \in UpdateRequests :
          IF UpdateRouteStatus(req) # 0
          THEN Rejected(p, req, UpdateRouteStatus(req))
          ELSE Accepted(p, req, "updateAssetProgress", "su_find",
                        unitAsset[req.assetId].unitId, Undefined, 0)

RouteRecordPronunciationAttempt(p, scope) ==
    /\ CanBegin(p, scope)
    /\ \E req \in PronunciationRequests :
          IF PronunciationRouteStatus(req) # 0
          THEN Rejected(p, req, PronunciationRouteStatus(req))
          ELSE Accepted(p, req, "recordPronunciationAttempt", "su_find",
                        req.unitId, Undefined, req.score)

RouteCompleteUnit(p, scope) ==
    /\ CanBegin(p, scope)
    /\ \E req \in CompleteRequests :
          IF CompleteRouteStatus(req) # 0
          THEN Rejected(p, req, CompleteRouteStatus(req))
          ELSE Accepted(p, req, "completeUnit", "su_find", req.unitId,
                        req.finalScore, 0)

RouteGetStoryProgress(p, scope) ==
    /\ CanBegin(p, scope)
    /\ \E req \in StoryRequests :
          IF StoryRouteStatus(req) # 0
          THEN Rejected(p, req, StoryRouteStatus(req))
          ELSE Accepted(p, req, "getStoryProgress", "gsp_units", "u1", Undefined, 0)

----------------------------------------------------------------------------
(* Specifications *)

\* a user_progress row written without startedAt (the column is nullable)
UnstartedUserProgress == [NoUserProgress EXCEPT !.exists = TRUE]

\* daily_plan_entries defaults: completed false, score 0
NewEntry == [completed |-> FALSE, score |-> 0]

EmptyUserProgress == [k \in Users \X Units |-> NoUserProgress]
EmptyAssetProgress == [k \in Users \X Assets |-> NoAssetProgress]

\* the store before the first request: no progress yet, but for learner B's
\* unstarted row for u1; the plan entries are the scheduler's
Init ==
    /\ userProgress = [EmptyUserProgress EXCEPT ![<<"B", "u1">>] = UnstartedUserProgress]
    /\ unitAssetProgress = EmptyAssetProgress
    /\ pronunciationAttempt = [k \in Users \X Units |-> <<>>]
    /\ dailyPlanEntry = [e \in Entries |-> NewEntry]
    /\ clock = 0
    /\ procs = [p \in Procs |-> IdleProc]

\* the body that leaves an asset at 89%, not completed
LowInput == CHOOSE d \in AssetInputs : d.progressPercentage = 89

\* the stores two interleaved requests of learner A for u1 may find at time 1:
\* nothing, an unstarted row, or the rows of one earlier updateAssetProgress
ConcInit ==
    /\ \E s \in {"empty", "unstarted", "updated"} :
          /\ userProgress =
                [EmptyUserProgress EXCEPT ![<<"A", "u1">>] =
                    CASE s = "empty" -> NoUserProgress
                      [] s = "unstarted" -> UnstartedUserProgress
                      [] OTHER -> CreatedUserProgress(1)]
          /\ unitAssetProgress =
                [EmptyAssetProgress EXCEPT ![<<"A", "a1">>] =
                    IF s = "updated" THEN CreatedAssetProgress("u1", LowInput, 1)
                    ELSE NoAssetProgress]
    /\ pronunciationAttempt = [k \in Users \X Units |-> <<>>]
    /\ dailyPlanEntry = [e \in Entries |-> NewEntry]
    /\ clock = 1
    /\ procs = [p \in Procs |-> IdleProc]

Begin(p, scope) ==
    \/ BeginStartUnit(p, scope)
    \/ BeginUpdateAssetProgress(p, scope)
    \/ BeginRecordPronunciationAttempt(p, scope)
    \/ BeginCalculateUnitScore(p, scope)
    \/ BeginCompleteUnit(p, scope)

Step(p) ==
    \/ StartUnitFind(p)
    \/ StartUnitCreate(p)
    \/ StartUnitUpdate(p)
    \/ UpdateAssetProgressFind(p)
    \/ UpdateAssetProgressUpdate(p)
    \/ UpdateAssetProgressCreate(p)
    \/ RecordAttemptCreate(p)
    \/ RecordAttemptFindMany(p)
    \/ CalculateReadProgress(p)
    \/ CalculateReadAttempts(p)
    \/ CompleteUnitAssets(p)
    \/ CompleteUnitFind(p)
    \/ CompleteUnitUpdate(p)
    \/ CompleteUnitCreate(p)
    \/ CompleteUnitWrite(p)
    \/ CompleteUnitEntries(p)
    \/ CompleteUnitEntryUpdate(p)

\* requests served one after another
Next == \E p \in Procs : Begin(p, SeqScope) \/ Step(p)

Spec == Init /\ [][Next]_vars

\* two requests of one learner for one unit, their store calls interleaved
ConcNext == \E p \in Procs : Begin(p, ConcScope) \/ Step(p)

SpecConc == ConcInit /\ [][ConcNext]_vars

\* calculateUnitScore applied to the stores a learner's requests leave behind:
\* each asset of u1 untouched or as one updateAssetProgress created it, and up
\* to two attempts per unit
MaxScoreCalls == 1

ScoreLogs ==
    LET S == {80, 90, 100}
        seqs == {<<>>} \cup {<<x>> : x \in S} \cup {<<x, y>> : x \in S, y \in S}
    IN  {[i \in 1..Len(s) |-> [id |-> 2 + i, score |-> s[i]]] : s \in seqs}

ScoreScope ==
    [procs |-> {"p1"}, pairs |-> {<<"A", "u1">>, <<"A", "u2">>},
     assets |-> Assets, assetInputs |-> AssetInputs,
     attemptScores |-> AttemptScores, finalScores |-> FinalScores,
     maxCalls |-> 4 + MaxScoreCalls]

ScoreInit ==
    /\ userProgress =
          [k \in Users \X Units |->
              IF k[1] = "A" THEN CreatedUserProgress(1) ELSE NoUserProgress]
    /\ \E r1 \in {NoAssetProgress} \cup {CreatedAssetProgress("u1", d, 1) : d \in AssetInputs},
          r2 \in {NoAssetProgress} \cup {CreatedAssetProgress("u1", d, 2) : d \in AssetInputs} :
          unitAssetProgress =
              [EmptyAssetProgress EXCEPT ![<<"A", "a1">>] = r1, ![<<"A", "a2">>] = r2]
    /\ \E l1 \in ScoreLogs, l2 \in {l \in ScoreLogs : Len(l) # 1} :
          pronunciationAttempt =
              [k \in Users \X Units |->
                  IF k = <<"A", "u1">> THEN l1
                  ELSE IF k = <<"A", "u2">> THEN l2 ELSE <<>>]
    /\ dailyPlanEntry = [e \in Entries |-> NewEntry]
    /\ clock = 4
    /\ procs = [p \in Procs |-> IdleProc]

ScoreNext ==
    \E p \in Procs :
        \/ BeginCalculateUnitScore(p, ScoreScope)
        \/ CalculateReadProgress(p)
        \/ CalculateReadAttempts(p)

SpecScore == ScoreInit /\ [][ScoreNext]_vars

\* requests of which one store call may be rejected, and which the caller then
\* invokes again with the same arguments
MaxFailCalls == 2

FailScope ==
    [procs |-> {"p1"}, pairs |-> {<<"A", "u1">>, <<"A", "u2">>},
     assets |-> Assets, assetInputs |-> ConcAssetInputs,
     attemptScores |-> {80, 120}, finalScores |-> {Undefined, Rat(189, 2)},
     maxCalls |-> 2 + MaxFailCalls]

\* the stores learner A's first two requests may have left: nothing, an
\* unstarted row, an update of a1 to 89%, or an update of a1 to 90% followed
\* by an attempt scored 80
FailInit ==
    /\ \E s \in {"empty", "unstarted", "updated", "watched"} :
          /\ userProgress =
                [EmptyUserProgress EXCEPT ![<<"A", "u1">>] =
                    CASE s = "empty" -> NoUserProgress
                      [] s = "unstarted" -> UnstartedUserProgress
                      [] OTHER -> CreatedUserProgress(1)]
          /\ unitAssetProgress =
                [EmptyAssetProgress EXCEPT ![<<"A", "a1">>] =
                    CASE s = "updated" -> CreatedAssetProgress("u1", LowInput, 1)
                      [] s = "watched" ->
                            CreatedAssetProgress("u1",
                                CHOOSE d \in AssetInputs : d.progressPercentage = 90, 1)
                      [] OTHER -> NoAssetProgress]
          /\ pronunciationAttempt =
                [k \in Users \X Units |->
                    IF s = "watched" /\ k = <<"A", "u1">>
                    THEN <<[id |-> 2, score |-> 80]>> ELSE <<>>]
    /\ dailyPlanEntry = [e \in Entries |-> NewEntry]
    /\ clock = 2
    /\ procs = [p \in Procs |-> IdleProc]

\* the store call a request awaits is rejected (the connection drops, the
\* process is stopped): the catch block of the operation rethrows
StoreFails(p, scope) ==
    /\ p \in scope.procs
    /\ Running(procs[p])
    /\ ~procs[p].retry
    /\ clock < scope.maxCalls
    /\ procs' = [procs EXCEPT ![p] = Thrown(procs[p])]
    /\ UNCHANGED <<userProgress, unitAssetProgress, pronunciationAttempt,
                   dailyPlanEntry, clock>>

\* the caller invokes the failed operation again with the same arguments
BeginRetry(p, scope) ==
    LET q == procs[p]
    IN  /\ p \in scope.procs
        /\ q.pc = "failed"
        /\ clock < scope.maxCalls
        /\ clock' = clock + 1
        /\ procs' = [procs EXCEPT ![p] =
              [IdleProc EXCEPT
                  !.pc = CASE q.op = "calculateUnitScore" -> "cus_read"
                           [] q.op = "getStoryProgress" -> "gsp_units"
                           [] OTHER -> "su_find",
                  !.op = q.op, !.callId = clock + 1, !.userId = q.userId,
                  !.unitId = q.unitId, !.assetId = q.assetId, !.data = q.data,
                  !.finalScore = q.finalScore, !.attemptScore = q.attemptScore,
                  !.storyId = q.storyId, !.retry = TRUE]]
        /\ UNCHANGED <<userProgress, unitAssetProgress, pronunciationAttempt,
                       dailyPlanEntry>>

ReadStep(p) ==
    \/ GetStoryProgressUnits(p)
    \/ GetStoryProgressFindUnique(p)
    \/ GetStoryProgressFindMany(p)

FailNext ==
    \E p \in Procs :
        \/ procs[p].pc # "failed" /\ Begin(p, FailScope)
        \/ procs[p].pc # "failed" /\ BeginGetStoryProgress(p, FailScope)
        \/ BeginRetry(p, FailScope)
        \/ Step(p)
        \/ ReadStep(p)
        \/ StoreFails(p, FailScope)

SpecFail == FailInit /\ [][FailNext]_vars

\* the runtime resumes every pending await and the caller does retry
SpecRedrive ==
    /\ FailInit
    /\ [][FailNext]_vars
    /\ WF_vars(\E p \in Procs : Step(p) \/ ReadStep(p) \/ BeginRetry(p, FailScope))

\* a learner's requests served one after another, the two summaries among
\* them
MaxReadCalls == 3

ReadScope ==
    [procs |-> {"p1"},
     pairs |-> {<<"A", "u1">>, <<"A", "u2">>, <<"B", "u1">>},
     assets |-> {"a1"}, assetInputs |-> ConcAssetInputs,
     attemptScores |-> {80, 90}, finalScores |-> {Undefined, Rat(0, 1), Rat(189, 2)},
     maxCalls |-> MaxReadCalls]

SummaryStep(p) ==
    \/ GetUserProgressSummaryProgress(p)
    \/ GetUserProgressSummaryAttempts(p)

ReadNext ==
    \E p \in Procs :
        \/ Begin(p, ReadScope)
        \/ BeginGetStoryProgress(p, ReadScope)
        \/ BeginGetUserProgressSummary(p, ReadScope)
        \/ Step(p)
        \/ ReadStep(p)
        \/ SummaryStep(p)

SpecRead == Init /\ [][ReadNext]_vars

\* requests that reach the service through the router
MaxRouteCalls == 2

RouteScope ==
    [procs |-> {"p1"}, pairs |-> Users \X Units,
     assets |-> Assets, assetInputs |-> ConcAssetInputs,
     attemptScores |-> {0, 80, 100}, finalScores |-> FinalScores,
     maxCalls |-> MaxRouteCalls]

RouteNext ==
    \E p \in Procs :
        \/ RouteStartUnit(p, RouteScope)
        \/ RouteUpdateAssetProgress(p, RouteScope)
        \/ RouteRecordPronunciationAttempt(p, RouteScope)
        \/ RouteCompleteUnit(p, RouteScope)
        \/ RouteGetStoryProgress(p, RouteScope)
        \/ Step(p)
        \/ ReadStep(p)

SpecRoute == Init /\ [][RouteNext]_vars

----------------------------------------------------------------------------
(* Properties *)

AssetKey(q) == <<q.userId, q.assetId>>
UnitKey(q) == <<q.userId, q.unitId>>

\* r is num/den rounded to the nearest integer, halves upwards (den > 0)
IsRounded(r, num, den) ==
    /\ 2 * den * r <= 2 * num + den
    /\ 2 * num + den < 2 * den * (r + 1)

\* the catalog assets of a unit and the learner's progress on them
CatalogAssets(unitId) == {a \in Assets : unitAsset[a].unitId = unitId}

PercentageOf(userId, a) ==
    IF unitAssetProgress[<<userId, a>>].exists
    THEN unitAssetProgress[<<userId, a>>].progressPercentage
    ELSE 0

RECURSIVE SumPercentage(_, _)
SumPercentage(userId, S) ==
    IF S = {} THEN 0
    ELSE LET a == CHOOSE x \in S : TRUE
         IN  PercentageOf(userId, a) + SumPercentage(userId, S \ {a})

RECURSIVE SumAttempts(_)
SumAttempts(log) ==
    IF log = <<>> THEN 0 ELSE Head(log).score + SumAttempts(Tail(log))

\* C1 (sticky completion): an updateAssetProgress with no completed override
\* and a lower progressPercentage, on a row whose completedAt is set, leaves
\* completedAt as it was and overwrites progressPercentage and secondsWatched
\* with the clamped and floored inputs.
C1_StickyCompletion ==
    [][\A p \in Procs :
          LET q == procs[p]
              old == unitAssetProgress[AssetKey(q)]
              new == unitAssetProgress'[AssetKey(q)]
              pct == Min(Max(q.data.progressPercentage, 0), 100)
          IN  ( /\ q.pc = "uap_update"
                /\ procs'[p].pc # "uap_update"
                /\ q.data.completed = "undefined"
                /\ old.completedAt # Null
                /\ pct < old.progressPercentage )
              => /\ procs'[p].pc = "done"
                 /\ new.completedAt = old.completedAt
                 /\ new.progressPercentage = pct
                 /\ new.secondsWatched =
                       Max(0, q.data.secondsWatched.n \div q.data.secondsWatched.d)
                 /\ procs'[p].result.assetProgress = new]_vars

\* C1 witness: an update to 0% has returned a row that was completed by an
\* earlier request and still carries that completedAt
C1_Witness ==
    \E p \in Procs :
        LET q == procs[p]
        IN  /\ q.pc = "done"
            /\ q.op = "updateAssetProgress"
            /\ q.data.completed = "undefined"
            /\ q.result.assetProgress.progressPercentage = 0
            /\ q.result.assetProgress.secondsWatched = 0
            /\ q.result.assetProgress.completedAt # Null
            /\ q.result.assetProgress.completedAt < q.now
            /\ unitAssetProgress[AssetKey(q)] = q.result.assetProgress

\* C2 (idempotent start): no step of startUnit, updateAssetProgress,
\* recordPronunciationAttempt or completeUnit changes a startedAt that is set,
\* and a startUnit that finds it set returns the stored row at once, writing
\* nothing.
C2_IdempotentStart ==
    [][ /\ \A k \in Users \X Units :
              userProgress[k].startedAt # Null
              => userProgress'[k].startedAt = userProgress[k].startedAt
        /\ \A p \in Procs :
              LET q == procs[p]
              IN  ( /\ q.op = "startUnit"
                    /\ q.pc = "su_find"
                    /\ procs'[p] # q
                    /\ userProgress[UnitKey(q)].startedAt # Null )
                  => /\ procs'[p].pc = "done"
                     /\ procs'[p].result.progress = userProgress[UnitKey(q)]
                     /\ UNCHANGED <<userProgress, unitAssetProgress,
                                    pronunciationAttempt, dailyPlanEntry>>
      ]_vars

\* C2 witness: a startUnit has returned a row started by an earlier request
C2_Witness ==
    \E p \in Procs :
        LET q == procs[p]
        IN  /\ q.pc = "done"
            /\ q.op = "startUnit"
            /\ q.result.progress.startedAt # Null
            /\ q.result.progress.startedAt < q.now
            /\ userProgress[UnitKey(q)] = q.result.progress

C4_UntouchedAssetPenalty ==
    \A p \in Procs :
        LET q == procs[p]
            S == CatalogAssets(q.unitId)
            touched == {a \in S : unitAssetProgress[<<q.userId, a>>].exists}
        IN  ( /\ q.pc = "done"
              /\ q.op = "calculateUnitScore"
              /\ S # {}
              /\ pronunciationAttempt[UnitKey(q)] = <<>> )
            => /\ IsRounded(q.result.score, SumPercentage(q.userId, touched),
                            Cardinality(S))
               /\ ( /\ Cardinality(S) = 2
                    /\ Cardinality(touched) = 1
                    /\ \A a \in touched : PercentageOf(q.userId, a) = 100 )
                  => q.result.score = 50

\* C4 witness: a unit with one asset at 100% and one untouched has scored 50
C4_Witness ==
    \E p \in Procs :
        LET q == procs[p]
        IN  /\ q.pc = "done"
            /\ q.op = "calculateUnitScore"
            /\ q.unitId = "u1"
            /\ pronunciationAttempt[UnitKey(q)] = <<>>
            /\ unitAssetProgress[<<q.userId, "a1">>].progressPercentage = 100
            /\ ~unitAssetProgress[<<q.userId, "a2">>].exists
            /\ q.result.score = 50

\* the plan entries of a learner for a unit
EntriesOf(userId, unitId) ==
    {e \in Entries : entryOwner[e] = userId /\ entryUnit[e] = unitId}

C6_ForceFill ==
    /\ [](\A p \in Procs :
            LET q == procs[p]
            IN  (q.pc = "done" /\ q.op = "completeUnit")
                => \A a \in CatalogAssets(q.unitId) :
                      LET row == unitAssetProgress[<<q.userId, a>>]
                      IN  /\ row.exists
                          /\ row.progressPercentage = 100
                          /\ row.completed
                          /\ row.completedAt # Null)
    /\ [][\A p \in Procs :
            procs[p].op = "completeUnit"
            => \A k \in Users \X Assets :
                  LET old == unitAssetProgress[k]
                      new == unitAssetProgress'[k]
                      duration == unitAsset[k[2]].duration
                  IN  /\ (~old.exists /\ new.exists)
                         => /\ k[1] = procs[p].userId
                            /\ new.secondsWatched =
                                  (IF duration = NullInt THEN 0 ELSE duration)
                            /\ new.completedAt = procs[p].now
                      /\ (old.exists /\ old.completedAt # Null)
                         => new.completedAt = old.completedAt]_vars

\* C6 witness: completeUnit has returned after creating the row of the
\* untouched asset a2 (duration unknown) and filling the row of a1, which an
\* earlier request had completed at 90%
C6_Witness ==
    \E p \in Procs :
        LET q == procs[p]
            r1 == unitAssetProgress[<<q.userId, "a1">>]
            r2 == unitAssetProgress[<<q.userId, "a2">>]
        IN  /\ q.pc = "done"
            /\ q.op = "completeUnit"
            /\ q.unitId = "u1"
            /\ r1.progressPercentage = 100
            /\ r1.secondsWatched = 4
            /\ r1.completedAt # Null
            /\ r1.completedAt < q.now
            /\ r2.secondsWatched = 0
            /\ r2.completedAt = q.now

\* C7 (override precedence): when completeUnit has returned from a call with a
\* finalScore override v, zero included, the stored and the returned score are
\* v clamped to [0, 100] and rounded, whatever the learner's progress is.
C7_OverridePrecedence ==
    \A p \in Procs :
        LET q == procs[p]
            v == q.finalScore
            num == IF v.n < 0 THEN 0 ELSE IF v.n > 100 * v.d THEN 100 * v.d ELSE v.n
        IN  (q.pc = "done" /\ q.op = "completeUnit" /\ v.d # 0)
            => /\ IsRounded(userProgress[UnitKey(q)].score, num, v.d)
               /\ q.result.progress = userProgress[UnitKey(q)]
               /\ userProgress[UnitKey(q)].completed

\* C7 witness: an override of 0 has been stored for a unit whose assets are all
\* at 100% and that has no attempt, where calculateUnitScore gives 100
C7_Witness ==
    \E p \in Procs :
        LET q == procs[p]
        IN  /\ q.pc = "done"
            /\ q.op = "completeUnit"
            /\ q.finalScore = Rat(0, 1)
            /\ q.unitId = "u1"
            /\ \A a \in CatalogAssets(q.unitId) : PercentageOf(q.userId, a) = 100
            /\ pronunciationAttempt[UnitKey(q)] = <<>>
            /\ userProgress[UnitKey(q)].completed
            /\ userProgress[UnitKey(q)].score = 0

\* C8 (attempt immutability): a step either leaves the attempts of a (learner,
\* unit) as they are or is the create of a recordPronunciationAttempt for that
\* pair and appends exactly one row, the clamped score of the call, to them;
\* the call then returns the length of the log as attemptCount.
C8_AttemptImmutability ==
    [][ /\ \A k \in Users \X Units :
              LET old == pronunciationAttempt[k]
                  new == pronunciationAttempt'[k]
              IN  \/ new = old
                  \/ /\ Len(new) = Len(old) + 1
                     /\ SubSeq(new, 1, Len(old)) = old
                     /\ \E p \in Procs :
                           /\ procs[p].pc = "rpa_create"
                           /\ procs'[p].pc = "rpa_find"
                           /\ UnitKey(procs[p]) = k
                           /\ new[Len(new)].id = procs[p].callId
                           /\ new[Len(new)].score =
                                 Min(Max(procs[p].attemptScore, 0), 100)
        /\ \A p \in Procs :
              (procs[p].pc = "rpa_create" /\ procs'[p] # procs[p])
              => Len(pronunciationAttempt'[UnitKey(procs[p])])
                    = Len(pronunciationAttempt[UnitKey(procs[p])]) + 1
        /\ \A p \in Procs :
              (procs[p].pc = "rpa_find" /\ procs'[p] # procs[p])
              => /\ procs'[p].pc = "done"
                 /\ procs'[p].result.attemptCount
                       = Len(pronunciationAttempt[UnitKey(procs[p])])
      ]_vars

\* C8 witness: the third recordPronunciationAttempt of a pair has returned 3,
\* the log holds the three attempts with the out-of-range score clamped
C8_Witness ==
    \E p \in Procs :
        LET q == procs[p]
            log == pronunciationAttempt[UnitKey(q)]
        IN  /\ q.pc = "done"
            /\ q.op = "recordPronunciationAttempt"
            /\ q.result.attemptCount = 3
            /\ Len(log) = 3
            /\ log[1].id < log[2].id
            /\ log[2].id < log[3].id
            /\ log[3].score = 100
            /\ q.attemptScore = 120

\* C9 (recomputed average): the findMany step of recordPronunciationAttempt
\* returns the mean and the number of the attempts stored for the pair at that
\* step, its own attempt among them, also when another request for the pair
\* interleaves.
C9_RecomputedAverage ==
    [][\A p \in Procs :
          LET q == procs[p]
              log == pronunciationAttempt[UnitKey(q)]
              res == procs'[p].result
          IN  (q.pc = "rpa_find" /\ procs'[p] # q)
              => /\ procs'[p].pc = "done"
                 /\ res.attemptCount = Len(log)
                 /\ res.attemptCount >= 1
                 /\ res.averageScore.d > 0
                 /\ res.averageScore.n * Len(log) = SumAttempts(log) * res.averageScore.d
                 /\ \E i \in 1..Len(log) :
                       log[i] = res.attempt /\ log[i].id = q.callId]_vars

\* C9 witness: a recordPronunciationAttempt has returned count 2 and mean 85
\* while the other request of the pair, whose attempt it counted, has not read
\* the log yet
C9_Witness ==
    \E p \in Procs, r \in Procs :
        /\ p # r
        /\ procs[p].pc = "done"
        /\ procs[p].op = "recordPronunciationAttempt"
        /\ procs[p].result.attemptCount = 2
        /\ procs[p].result.averageScore = Rat(170, 2)
        /\ procs[r].pc = "rpa_find"
        /\ UnitKey(procs[r]) = UnitKey(procs[p])

\* C10 (first-write race), as claimed: interleaved requests that each would
\* create the first row of a key all complete without error, and one row per
\* key exists.
C10_FirstWriteRace ==
    \A p \in Procs :
        /\ procs[p].pc # "failed"
        /\ (procs[p].pc = "done" /\ procs[p].op = "startUnit")
           => userProgress[UnitKey(procs[p])].exists
        /\ (procs[p].pc = "done" /\ procs[p].op = "updateAssetProgress")
           => unitAssetProgress[AssetKey(procs[p])].exists

\* C11 (completion timestamp set once), as claimed: completeUnit stamps
\* completedAt only when it is not set, so the userProgress write of a later
\* completeUnit leaves the completedAt of the first completion as it is.
C11_CompletedAtOnce ==
    [][\A p \in Procs :
          LET q == procs[p]
              old == userProgress[UnitKey(q)]
              new == userProgress'[UnitKey(q)]
          IN  ( /\ q.op = "completeUnit"
                /\ q.pc = "cu_write"
                /\ procs'[p] # q
                /\ old.completed
                /\ old.completedAt # Null )
              => new.completedAt = old.completedAt]_vars

\* r is the score completeUnit determines for the request q on the present
\* store: the override clamped and rounded, or the rounded mean of the asset
\* and pronunciation components
IsDeterminedScore(r, q) ==
    LET v == q.finalScore
        num == IF v.n < 0 THEN 0 ELSE IF v.n > 100 * v.d THEN 100 * v.d ELSE v.n
        S == CatalogAssets(q.unitId)
        nA == Cardinality(S)
        sA == SumPercentage(q.userId, S)
        log == pronunciationAttempt[UnitKey(q)]
        nP == Len(log)
        sP == SumAttempts(log)
    IN  IF v.d # 0 THEN IsRounded(r, num, v.d)
        ELSE /\ (nA = 0 /\ nP = 0) => r = 0
             /\ (nA > 0 /\ nP = 0) => IsRounded(r, sA, nA)
             /\ (nA = 0 /\ nP > 0) => IsRounded(r, sP, nP)
             /\ (nA > 0 /\ nP > 0) => IsRounded(r, sA * nP + sP * nA, 2 * nA * nP)

\* the state an uninterrupted completeUnit of the request q leaves
CompletionDone(q) ==
    /\ \A a \in CatalogAssets(q.unitId) :
          LET row == unitAssetProgress[<<q.userId, a>>]
          IN  row.exists /\ row.completed /\ row.progressPercentage = 100
    /\ userProgress[UnitKey(q)].exists
    /\ userProgress[UnitKey(q)].completed
    /\ IsDeterminedScore(userProgress[UnitKey(q)].score, q)
    /\ \A e \in EntriesOf(q.userId, q.unitId) :
          /\ dailyPlanEntry[e].completed
          /\ dailyPlanEntry[e].score = userProgress[UnitKey(q)].score

\* C12 (re-driveable completion): a completeUnit that failed at any of its
\* store calls, invoked again with the same arguments and not failing again,
\* returns, and then every catalog asset row is completed at 100%, the
\* userProgress row is completed with the determined score and every plan
\* entry of the learner for the unit is completed with that score.
C12_Redrive ==
    \A p \in Procs :
        (procs[p].pc = "failed" /\ procs[p].op = "completeUnit" /\ ~procs[p].retry)
        ~> ( /\ procs[p].pc = "done"
             /\ procs[p].op = "completeUnit"
             /\ procs[p].retry
             /\ CompletionDone(procs[p]) )

\* C12 witness: the second invocation has returned and finished the job of a
\* first one that had created the row of a2 and then failed: the row of a2
\* carries the time of the first invocation, the plan entries are written
C12_Witness ==
    \E p \in Procs :
        LET q == procs[p]
        IN  /\ q.pc = "done"
            /\ q.op = "completeUnit"
            /\ q.retry
            /\ q.unitId = "u1"
            /\ unitAssetProgress[<<q.userId, "a2">>].completedAt = q.now - 1
            /\ userProgress[UnitKey(q)].completedAt = q.now
            /\ CompletionDone(q)
            /\ dailyPlanEntry["e1"].completed

\* C13 (write ordering in completeUnit): the userProgress write of a call
\* happens when every catalog asset the call listed has a completed row at
\* 100%; a plan entry is written when the userProgress row is completed with
\* the score the entry receives; so also after a call that failed part-way a
\* completed plan entry implies a completed unit, and a completed unit implies
\* a row for each of its catalog assets.
C13_WriteOrdering ==
    /\ [](\A k \in Users \X Units :
            /\ (\E e \in EntriesOf(k[1], k[2]) : dailyPlanEntry[e].completed)
               => userProgress[k].completed
            /\ userProgress[k].completed
               => \A a \in CatalogAssets(k[2]) : unitAssetProgress[<<k[1], a>>].exists)
    /\ [][ /\ \A k \in Users \X Units :
                 (~userProgress[k].completed /\ userProgress'[k].completed)
                 => \E p \in Procs :
                       /\ procs[p].pc = "cu_write"
                       /\ UnitKey(procs[p]) = k
                       /\ procs[p].todo = <<>>
                       /\ \A a \in CatalogAssets(k[2]) :
                             LET row == unitAssetProgress[<<k[1], a>>]
                             IN  row.exists /\ row.completed /\ row.progressPercentage = 100
           /\ \A e \in Entries :
                 dailyPlanEntry'[e] # dailyPlanEntry[e]
                 => \E r \in Procs :
                       LET q == procs[r]
                       IN  /\ q.pc = "cu_entry"
                           /\ e \in EntriesOf(q.userId, q.unitId)
                           /\ userProgress[UnitKey(q)].completed
                           /\ userProgress[UnitKey(q)].score = q.score
                           /\ userProgress[UnitKey(q)] = q.result.progress
                           /\ dailyPlanEntry'[e].score = q.score
         ]_vars

\* C13 witness: a completeUnit has failed between its two plan entry writes:
\* the unit is completed, e1 carries its score, e2 is still open
C13_Witness ==
    \E p \in Procs :
        LET q == procs[p]
        IN  /\ q.pc = "failed"
            /\ q.op = "completeUnit"
            /\ userProgress[UnitKey(q)].completed
            /\ dailyPlanEntry["e1"].completed
            /\ dailyPlanEntry["e1"].score = userProgress[UnitKey(q)].score
            /\ ~dailyPlanEntry["e2"].completed
            /\ \A a \in CatalogAssets(q.unitId) :
                  unitAssetProgress[<<q.userId, a>>].progressPercentage = 100

IsFlooredNonNegative(r, v) ==
    IF v.n < 0 THEN r = 0
    ELSE r * v.d <= v.n /\ v.n < (r + 1) * v.d

\* C15 (clamping): the row an updateAssetProgress writes has the sent
\* progressPercentage clamped to [0, 100] (150 gives 100, -5 gives 0), the
\* sent secondsWatched floored and at least 0, and durationSeconds floored and
\* at least 0 when it was sent, left as it was otherwise; every row of
\* unit_asset_progress has progressPercentage in [0, 100] and secondsWatched
\* and a stored durationSeconds at least 0.
C15_Clamping ==
    /\ [](\A k \in Users \X Assets :
            LET row == unitAssetProgress[k]
            IN  row.exists
                => /\ 0 <= row.progressPercentage
                   /\ row.progressPercentage <= 100
                   /\ row.secondsWatched >= 0
                   /\ (row.durationSeconds = NullInt \/ row.durationSeconds >= 0))
    /\ [][\A p \in Procs :
            LET q == procs[p]
                old == unitAssetProgress[AssetKey(q)]
                new == unitAssetProgress'[AssetKey(q)]
                sent == q.data.progressPercentage
            IN  (q.pc \in {"uap_update", "uap_create"} /\ procs'[p] # q)
                => /\ new.exists
                   /\ new.progressPercentage =
                         (IF sent < 0 THEN 0 ELSE IF sent > 100 THEN 100 ELSE sent)
                   /\ (sent = 150) => new.progressPercentage = 100
                   /\ (sent = 0 - 5) => new.progressPercentage = 0
                   /\ IsFlooredNonNegative(new.secondsWatched, q.data.secondsWatched)
                   /\ IF q.data.durationSeconds.d = 0
                      THEN new.durationSeconds = old.durationSeconds
                      ELSE IsFlooredNonNegative(new.durationSeconds, q.data.durationSeconds)
                   /\ procs'[p].result.assetProgress = new]_vars

\* C15 witness: an update sent with 150%, 3.5 seconds watched and a duration
\* of -0.5 has returned the row it stored: 100%, 3 seconds, duration 0
C15_Witness ==
    \E p \in Procs :
        LET q == procs[p]
            row == unitAssetProgress[AssetKey(q)]
        IN  /\ q.pc = "done"
            /\ q.op = "updateAssetProgress"
            /\ q.data.progressPercentage = 150
            /\ q.data.secondsWatched = Rat(7, 2)
            /\ q.data.durationSeconds = Rat(0 - 1, 2)
            /\ row = q.result.assetProgress
            /\ row.progressPercentage = 100
            /\ row.secondsWatched = 3
            /\ row.durationSeconds = 0

\* C16 (asset completion policy): the row an updateAssetProgress writes is
\* completed when the override is true, or when no override is sent and the
\* clamped progressPercentage is at least 90 (89 is not, 90 is), and not
\* completed otherwise, an override of false at 90% or more included; a row
\* written completed that had no completedAt gets the present time.
C16_CompletionPolicy ==
    [][\A p \in Procs :
          LET q == procs[p]
              old == unitAssetProgress[AssetKey(q)]
              new == unitAssetProgress'[AssetKey(q)]
              sent == q.data.progressPercentage
              pct == IF sent < 0 THEN 0 ELSE IF sent > 100 THEN 100 ELSE sent
          IN  (q.pc \in {"uap_update", "uap_create"} /\ procs'[p] # q)
              => /\ new.completed =
                       ( \/ q.data.completed = "true"
                         \/ (q.data.completed = "undefined" /\ pct >= 90) )
                 /\ (q.data.completed = "undefined" /\ sent = 89) => ~new.completed
                 /\ (q.data.completed = "undefined" /\ sent = 90) => new.completed
                 /\ (q.data.completed = "false") => ~new.completed
                 /\ (new.completed /\ old.completedAt = Null) => new.completedAt = clock
                 /\ procs'[p].result.assetProgress = new]_vars

\* C16 witness: an update to 90% without override has returned its row,
\* completed at the present time, and had found it at 89% and open; the
\* learner's other asset was sent at 150% with an override of false and is open
C16_Witness ==
    \E p \in Procs :
        LET q == procs[p]
            row == unitAssetProgress[AssetKey(q)]
        IN  /\ q.pc = "done"
            /\ q.op = "updateAssetProgress"
            /\ q.data.completed = "undefined"
            /\ q.data.progressPercentage = 90
            /\ row = q.result.assetProgress
            /\ row.completed
            /\ row.completedAt = q.now
            /\ row.durationSeconds = 3
            /\ \E a \in Assets \ {q.assetId} :
                  /\ unitAssetProgress[<<q.userId, a>>].progressPercentage = 100
                  /\ ~unitAssetProgress[<<q.userId, a>>].completed
                  /\ unitAssetProgress[<<q.userId, a>>].completedAt = Null

\* C17 (UnitProgress invariant): every completed userProgress row has
\* completedAt set; a step that changes the completed flag or the score of a
\* row is the userProgress.update of a completeUnit for that row and stores
\* the score that call determined, so the score of a completed row is that of
\* the latest completeUnit that wrote it.
C17_UnitProgressInvariant ==
    /\ [](\A k \in Users \X Units :
            userProgress[k].completed
            => userProgress[k].exists /\ userProgress[k].completedAt # Null)
    /\ [][\A k \in Users \X Units :
            ( \/ userProgress'[k].score # userProgress[k].score
              \/ userProgress'[k].completed # userProgress[k].completed
              \/ userProgress'[k].completedAt # userProgress[k].completedAt )
            => \E p \in Procs :
                  LET q == procs[p]
                  IN  /\ q.op = "completeUnit"
                      /\ q.pc = "cu_write"
                      /\ UnitKey(q) = k
                      /\ IsDeterminedScore(q.score, q)
                      /\ userProgress'[k].completed
                      /\ userProgress'[k].score = q.score
                      /\ userProgress'[k].completedAt = q.now
                      /\ procs'[p].result.progress = userProgress'[k]]_vars

\* C17 witness: a completeUnit without override has returned 90, the mean of
\* the assets at 100% and an attempt scored 80, for a unit that an earlier
\* completeUnit had completed before the attempt was recorded
C17_Witness ==
    \E p \in Procs :
        LET q == procs[p]
            row == userProgress[UnitKey(q)]
        IN  /\ q.pc = "done"
            /\ q.op = "completeUnit"
            /\ q.finalScore = Undefined
            /\ q.unitId = "u1"
            /\ row.completed
            /\ row.completedAt = q.now
            /\ row.score = 90
            /\ row = q.result.progress
            /\ pronunciationAttempt[UnitKey(q)] # <<>>
            /\ unitAssetProgress[<<q.userId, "a2">>].progressPercentage = 100
            /\ unitAssetProgress[<<q.userId, "a2">>].completedAt # Null
            /\ unitAssetProgress[<<q.userId, "a2">>].completedAt < q.now

\* C18 (score range): every userProgress score and every plan entry score is
\* an integer in [0, 100]; so is every score calculateUnitScore has returned
\* and every score a completeUnit is about to write; an override above 100 is
\* stored and propagated as 100, one below 0 as 0.
C18_ScoreRange ==
    /\ \A k \in Users \X Units : userProgress[k].score \in 0..100
    /\ \A e \in Entries : dailyPlanEntry[e].score \in 0..100
    /\ \A p \in Procs :
          LET q == procs[p]
              v == q.finalScore
          IN  /\ (q.pc = "done" /\ q.op = "calculateUnitScore")
                 => q.result.score \in 0..100
              /\ (q.op = "completeUnit" /\ q.pc \in {"cu_write", "cu_entries", "cu_entry", "done"})
                 => q.score \in 0..100
              /\ (q.op = "completeUnit" /\ q.pc = "done" /\ v.d # 0)
                 => /\ (v.n > 100 * v.d) => userProgress[UnitKey(q)].score = 100
                    /\ (v.n < 0) => userProgress[UnitKey(q)].score = 0
                    /\ \A e \in EntriesOf(q.userId, q.unitId) :
                          dailyPlanEntry[e].score = userProgress[UnitKey(q)].score

\* C18 witness: a completeUnit with an override of 121 has returned; the unit
\* and the learner's plan entries for it carry 100
C18_Witness ==
    \E p \in Procs :
        LET q == procs[p]
        IN  /\ q.pc = "done"
            /\ q.op = "completeUnit"
            /\ q.finalScore = Rat(121, 1)
            /\ q.unitId = "u1"
            /\ userProgress[UnitKey(q)].score = 100
            /\ q.result.progress.score = 100
            /\ \A e \in EntriesOf(q.userId, q.unitId) : dailyPlanEntry[e].score = 100
            /\ EntriesOf(q.userId, q.unitId) # {}

Started(userId, unitId) ==
    /\ userProgress[<<userId, unitId>>].exists
    /\ userProgress[<<userId, unitId>>].startedAt # Null

\* C19 (implicit start): every asset row and every attempt has a userProgress
\* row with startedAt set for its learner and unit, and so has the unit of
\* every updateAssetProgress, recordPronunciationAttempt and completeUnit
\* that has returned; a request writes an asset row or an attempt only once
\* its startUnit has returned, so a failure inside startUnit writes neither.
C19_ImplicitStart ==
    /\ [](\A q \in Procs :
            /\ \A k \in Users \X Assets :
                  unitAssetProgress[k].exists
                  => Started(k[1], unitAssetProgress[k].unitId)
            /\ \A k \in Users \X Units :
                  pronunciationAttempt[k] # <<>> => Started(k[1], k[2])
            /\ ( /\ procs[q].pc = "done"
                 /\ procs[q].op \in {"updateAssetProgress",
                                      "recordPronunciationAttempt", "completeUnit"} )
               => Started(procs[q].userId, procs[q].unitId))
    /\ [][ /\ \A p \in Procs :
                 ( /\ procs[p].pc \in {"su_find", "su_create", "su_update"}
                   /\ procs'[p] # procs[p] )
                 => UNCHANGED <<unitAssetProgress, pronunciationAttempt>>
           /\ \A k \in Users \X Assets :
                 unitAssetProgress'[k] # unitAssetProgress[k]
                 => Started(k[1], unitAssetProgress'[k].unitId)
           /\ \A k \in Users \X Units :
                 pronunciationAttempt'[k] # pronunciationAttempt[k]
                 => Started(k[1], k[2])
         ]_vars

\* C19 witness: an updateAssetProgress whose first invocation failed inside
\* startUnit, leaving neither a unit row nor an asset row, has been invoked
\* again and has returned: both rows carry the time of the second invocation
C19_Witness ==
    \E p \in Procs :
        LET q == procs[p]
        IN  /\ q.pc = "done"
            /\ q.op = "updateAssetProgress"
            /\ q.retry
            /\ userProgress[UnitKey(q)].startedAt = q.now
            /\ unitAssetProgress[AssetKey(q)].exists
            /\ unitAssetProgress[AssetKey(q)].unitId = q.unitId
            /\ unitAssetProgress[AssetKey(q)].completedAt = q.now

\* C20 (failure kinds), as claimed: a getStoryProgress for a story without
\* catalog units fails with a failure of kind NotFound, another kind than
\* that of the failure a rejected store call gives.
C20_FailureKinds ==
    \A p \in Procs :
        LET q == procs[p]
        IN  ( /\ q.pc = "failed"
              /\ q.op = "getStoryProgress"
              /\ UnitFindMany(q.storyId) = <<>>
              /\ q.error.cause = StoryNotFound )
            => /\ q.error.kind = "NotFound"
               /\ q.error.kind # Thrown(q).error.kind

\* the tables of the store
tables == <<userProgress, unitAssetProgress, pronunciationAttempt, dailyPlanEntry>>

\* C21 (no silent failure, no rollback): a request whose store call is
\* rejected ends failed, with an error and no result, in the very step of
\* the rejection and with the tables as they were, the rows it had written
\* included; a failed request takes no further step; a request that has
\* returned carries the result of its last store call.
C21_NoSilentFailure ==
    /\ [](\A p \in Procs :
            LET q == procs[p]
            IN  /\ q.pc = "failed"
                   => (q.result = NoResult /\ q.error.kind # "none" /\ q.error.op = q.op)
                /\ q.pc = "done"
                   => /\ q.error = NoError
                      /\ q.op \in {"startUnit", "completeUnit"}
                         => (q.result.progress.exists
                             /\ q.result.progress = userProgress[UnitKey(q)])
                      /\ q.op = "completeUnit" => userProgress[UnitKey(q)].completed
                      /\ q.op = "updateAssetProgress"
                         => q.result.assetProgress = unitAssetProgress[AssetKey(q)]
                      /\ q.op = "recordPronunciationAttempt"
                         => q.result.attemptCount >= 1)
    /\ [][\A p \in Procs :
            /\ (Running(procs[p]) /\ procs'[p].pc = "failed")
               => (UNCHANGED tables /\ procs'[p].callId = procs[p].callId)
            /\ procs[p].pc = "failed"
               => /\ UNCHANGED tables
                  /\ procs'[p] = procs[p] \/ procs'[p].callId > procs[p].callId]_vars

\* C21 witness: a completeUnit has failed after it had created the row of a1
\* and before it reached a2 and the unit: the row of a1 stands, a2 has none,
\* the unit is not completed and no plan entry is written
C21_Witness ==
    \E p \in Procs :
        LET q == procs[p]
        IN  /\ q.pc = "failed"
            /\ q.op = "completeUnit"
            /\ q.unitId = "u1"
            /\ q.error.kind = "Error"
            /\ unitAssetProgress[<<q.userId, "a1">>].exists
            /\ unitAssetProgress[<<q.userId, "a1">>].progressPercentage = 100
            /\ unitAssetProgress[<<q.userId, "a1">>].completedAt = q.callId
            /\ ~unitAssetProgress[<<q.userId, "a2">>].exists
            /\ userProgress[UnitKey(q)].exists
            /\ ~userProgress[UnitKey(q)].completed
            /\ \A e \in Entries : dailyPlanEntry[e] = NewEntry

\* every row the store holds for one learner
RowsOf(userId) ==
    [progress |-> [u \in Units |-> userProgress[<<userId, u>>]],
     assets   |-> [a \in Assets |-> unitAssetProgress[<<userId, a>>]],
     attempts |-> [u \in Units |-> pronunciationAttempt[<<userId, u>>]],
     entries  |-> [e \in {x \in Entries : entryOwner[x] = userId} |-> dailyPlanEntry[e]]]

\* C22 (cross-learner isolation): every step of a request made for one
\* learner leaves all rows of every other learner as they were, and what the
\* request returns (the unit score, the completed record and its score, the
\* running average and count of attempts, the asset row) is the value
\* determined by the rows of its own learner alone.
C22_Isolation ==
    /\ [](\A p \in Procs :
            LET q == procs[p]
                own == RowsOf(q.userId)
                log == own.attempts[q.unitId]
            IN  q.pc = "done"
                => /\ q.op = "calculateUnitScore"
                      => IsDeterminedScore(q.result.score, [q EXCEPT !.finalScore = Undefined])
                   /\ q.op = "completeUnit"
                      => /\ q.result.progress = own.progress[q.unitId]
                         /\ IsDeterminedScore(q.result.score, q)
                   /\ q.op = "startUnit"
                      => q.result.progress = own.progress[q.unitId]
                   /\ q.op = "updateAssetProgress"
                      => q.result.assetProgress = own.assets[q.assetId]
                   /\ q.op = "recordPronunciationAttempt"
                      => /\ q.result.attemptCount = Len(log)
                         /\ q.result.averageScore.d = Len(log)
                         /\ q.result.averageScore.n = SumAttempts(log))
    /\ [][\A p \in Procs : \A other \in Users :
            (procs'[p] # procs[p] /\ other # procs'[p].userId)
            => RowsOf(other)' = RowsOf(other)]_vars

\* C22 witness: a unit score of 0 has been returned to a learner with no row
\* on an asset for which another learner holds a row with progress
C22_Witness ==
    \E p \in Procs : \E other \in Users :
        LET q == procs[p]
        IN  /\ q.pc = "done"
            /\ q.op = "calculateUnitScore"
            /\ q.unitId = "u1"
            /\ other # q.userId
            /\ \A a \in CatalogAssets("u1") : ~unitAssetProgress[<<q.userId, a>>].exists
            /\ pronunciationAttempt[UnitKey(q)] = <<>>
            /\ unitAssetProgress[<<other, "a1">>].exists
            /\ unitAssetProgress[<<other, "a1">>].progressPercentage > 0
            /\ q.result.score = 0

\* the rows a learner has, and the sum of the scores of a set of them
UnitsWithRow(userId) == {u \in Units : userProgress[<<userId, u>>].exists}

RECURSIVE SumScores(_, _)
SumScores(userId, S) ==
    IF S = {} THEN 0
    ELSE LET u == CHOOSE x \in S : TRUE
         IN  userProgress[<<userId, u>>].score + SumScores(userId, S \ {u})

\* C23 (learner summary): the summary returned to a learner counts the
\* learner's rows as totalUnits, the completed ones as completedUnits, the
\* started and not completed ones as inProgressUnits, and its averageScore is
\* the mean score of the completed rows rounded, 0 if there is none; a row
\* completed with score 0 is among the completed and not among the in-progress
\* ones, and completedUnits + inProgressUnits <= totalUnits.
C23_Summary ==
    \A p \in Procs :
        LET q == procs[p]
            r == q.result.summary
            rows == UnitsWithRow(q.userId)
            done == {u \in rows : userProgress[<<q.userId, u>>].completed}
            open == {u \in rows :
                        /\ userProgress[<<q.userId, u>>].startedAt # Null
                        /\ ~userProgress[<<q.userId, u>>].completed}
            zero == {u \in done : userProgress[<<q.userId, u>>].score = 0}
        IN  (q.pc = "done" /\ q.op = "getUserProgressSummary")
            => /\ r.totalUnits = Cardinality(rows)
               /\ r.completedUnits = Cardinality(done)
               /\ r.inProgressUnits = Cardinality(open)
               /\ done = {} => r.averageScore = 0
               /\ done # {}
                  => IsRounded(r.averageScore, SumScores(q.userId, done), Cardinality(done))
               /\ zero \subseteq done /\ zero \cap open = {}
               /\ r.completedUnits + r.inProgressUnits <= r.totalUnits

\* C23 witness: a summary over one unit completed with score 0 and one
\* completed with score 95: two completed, none in progress, average 48
C23_Witness ==
    \E p \in Procs :
        LET q == procs[p]
        IN  /\ q.pc = "done"
            /\ q.op = "getUserProgressSummary"
            /\ \E u \in Units : \E v \in Units :
                  /\ userProgress[<<q.userId, u>>].completed
                  /\ userProgress[<<q.userId, u>>].score = 0
                  /\ userProgress[<<q.userId, v>>].completed
                  /\ userProgress[<<q.userId, v>>].score = 95
            /\ q.result.summary.completedUnits = 2
            /\ q.result.summary.inProgressUnits = 0
            /\ q.result.summary.averageScore = 48

\* C24 (story progress): the story progress returned has one entry per
\* catalog unit of the story in catalog order; the entry of a unit the learner
\* has no row for reads completed false, score 0 and no timestamps, the entry
\* of any other unit reads as the row does; totalUnits is the number of
\* catalog units, completedUnits the number of completed entries and
\* averageScore the rounded mean score of the completed entries, 0 if none.
C24_StoryProgress ==
    \A p \in Procs :
        LET q == procs[p]
            r == q.result.story
            units == UnitFindMany(q.storyId)
            done == {u \in Units : \E i \in 1..Len(units) :
                        units[i] = u /\ userProgress[<<q.userId, u>>].completed}
        IN  (q.pc = "done" /\ q.op = "getStoryProgress")
            => /\ Len(r.units) = Len(units)
               /\ \A i \in 1..Len(units) :
                     LET row == userProgress[<<q.userId, units[i]>>]
                         e == r.units[i]
                     IN  /\ e.unitId = units[i]
                         /\ ~row.exists
                            => /\ e.completed = FALSE
                               /\ e.score = 0
                               /\ e.startedAt = Null
                               /\ e.completedAt = Null
                         /\ row.exists
                            => /\ e.completed = row.completed
                               /\ e.score = row.score
                               /\ e.startedAt = row.startedAt
                               /\ e.completedAt = row.completedAt
               /\ r.totalUnits = Len(units)
               /\ r.completedUnits = Cardinality(done)
               /\ done = {} => r.averageScore = 0
               /\ done # {}
                  => IsRounded(r.averageScore, SumScores(q.userId, done), Cardinality(done))

\* C24 witness: the progress of story s1 returned to a learner who completed
\* u1 with a score above 0 and never touched u2
C24_Witness ==
    \E p \in Procs :
        LET q == procs[p]
        IN  /\ q.pc = "done"
            /\ q.op = "getStoryProgress"
            /\ q.storyId = "s1"
            /\ userProgress[<<q.userId, "u1">>].completed
            /\ userProgress[<<q.userId, "u1">>].score > 0
            /\ ~userProgress[<<q.userId, "u2">>].exists
            /\ Len(q.result.story.units) = 2
            /\ q.result.story.units[2].unitId = "u2"
            /\ q.result.story.completedUnits = 1
            /\ q.result.story.averageScore = userProgress[<<q.userId, "u1">>].score

\* the defects of a request; an empty audioKey is no audioKey
Unauthenticated(req) == req.user = "none"

LacksField(req) ==
    \/ req.route = "update" /\ (~req.hasSecondsWatched \/ ~req.hasProgressPercentage)
    \/ req.route = "pronunciation"
       /\ (req.audioKey = "undefined" \/ req.audioKey = "" \/ ~req.hasScore)

OutOfRange(req) ==
    \/ req.route = "pronunciation" /\ req.hasScore /\ (req.score < 0 \/ req.score > 100)
    \/ /\ req.route = "complete"
       /\ req.finalScore.d # 0
       /\ (req.finalScore.n < 0 \/ req.finalScore.n > 100 * req.finalScore.d)

NamesUnknown(req) ==
    \/ req.route \in {"start", "pronunciation", "complete"} /\ req.unitId \notin Units
    \/ req.route = "update" /\ req.assetId \notin Assets
    \/ req.route = "story" /\ req.storyId \notin Stories

HasDefect(req) ==
    Unauthenticated(req) \/ LacksField(req) \/ OutOfRange(req) \/ NamesUnknown(req)

\* the status of the first defect the handlers look for: the user, then the
\* body, then the path parameter
StatusOf(req) ==
    IF Unauthenticated(req) THEN 401
    ELSE IF LacksField(req) \/ OutOfRange(req) THEN 400
    ELSE 404

\* C25 (route-level rejection): a request without a user, without a required
\* field, with a score or finalScore outside [0, 100], or naming an unknown
\* unit, asset or story is answered 401, 400, 400 or 404 (the first of its
\* defects in this order) in a step that leaves every table as it was; the
\* service is not invoked for it, so no operation ever runs, returns or fails
\* on behalf of such a request, and the rejected request takes no later step.
C25_RouteRejection ==
    /\ [](\A p \in Procs :
            LET q == procs[p]
            IN  /\ (q.request.route # "none" /\ HasDefect(q.request))
                   => /\ q.pc = "rejected"
                      /\ q.op = "none"
                      /\ q.status = StatusOf(q.request)
                      /\ q.result = NoResult
                /\ q.pc # "rejected" => q.status = 0)
    /\ [][\A p \in Procs :
            /\ procs'[p].pc = "rejected" => UNCHANGED tables
            /\ procs[p].pc = "rejected"
               => /\ UNCHANGED tables
                  /\ procs'[p] = procs[p] \/ procs'[p].callId > procs[p].callId]_vars

\* C25 witness: a pronunciation request with score 101 for a known unit has
\* been answered 400 on a store that holds progress of the learner, and the
\* learner has no attempt
C25_Witness ==
    \E p \in Procs :
        LET q == procs[p]
        IN  /\ q.pc = "rejected"
            /\ q.request.route = "pronunciation"
            /\ q.request.user = "A"
            /\ q.request.unitId = "u1"
            /\ q.request.audioKey = "key"
            /\ q.request.hasScore
            /\ q.request.score = 101
            /\ q.status = 400
            /\ userProgress[<<"A", "u1">>].exists
            /\ pronunciationAttempt[<<"A", "u1">>] = <<>>

\* C26 (sticky completion under interleaving), as claimed: when the reads and
\* writes of updateAssetProgress calls for one (learner, asset) interleave,
\* a write of one of them leaves a completedAt that another of them has set
\* as it is.
C26_StickyInterleaved ==
    [][\A p \in Procs :
          LET q == procs[p]
              old == unitAssetProgress[AssetKey(q)]
              new == unitAssetProgress'[AssetKey(q)]
          IN  ( /\ q.op = "updateAssetProgress"
                /\ q.pc \in {"uap_update", "uap_create"}
                /\ procs'[p] # q
                /\ old.exists
                /\ old.completedAt # Null
                /\ \E r \in Procs \ {p} :
                      /\ procs[r].op = "updateAssetProgress"
                      /\ AssetKey(procs[r]) = AssetKey(q)
                      /\ procs[r].callId = old.completedAt )
              => new.completedAt = old.completedAt]_vars

\* C27 (plan and unit score agree), as claimed: when the interleaved
\* completeUnit calls for one (learner, unit) have all returned, every plan
\* entry of the learner for the unit is completed with the score the unit's
\* progress row holds.
C27_PlanAgrees ==
    (\A p \in Procs :
        /\ procs[p].pc = "done"
        /\ procs[p].op = "completeUnit"
        /\ UnitKey(procs[p]) = <<"A", "u1">>)
    => \A e \in EntriesOf("A", "u1") :
          /\ dailyPlanEntry[e].completed
          /\ dailyPlanEntry[e].score = userProgress[<<"A", "u1">>].score

C29_SingleWriter ==
    [][\A k \in Users \X Units :
          LET old == userProgress[k]
              new == userProgress'[k]
              same == /\ new.completed = old.completed
                      /\ new.score = old.score
                      /\ new.completedAt = old.completedAt
          IN  /\ (\E p \in Procs :
                     /\ procs'[p] # procs[p]
                     /\ Running(procs[p])
                     /\ procs[p].op \in {"startUnit", "updateAssetProgress",
                                         "recordPronunciationAttempt",
                                         "calculateUnitScore"})
                 => same
              /\ ~same
                 => \E r \in Procs :
                       /\ procs'[r] # procs[r]
                       /\ procs[r].op = "completeUnit"
                       /\ UnitKey(procs[r]) = k
              /\ old.completed => new.completed]_vars

\* C29 witness: an attempt scored below 100 has been recorded for a unit
\* completed earlier with score 100, and the stored score is still 100
C29_Witness ==
    \E p \in Procs :
        LET q == procs[p]
            row == userProgress[UnitKey(q)]
            log == pronunciationAttempt[UnitKey(q)]
        IN  /\ q.pc = "done"
            /\ q.op = "recordPronunciationAttempt"
            /\ q.unitId = "u1"
            /\ row.completed
            /\ row.score = 100
            /\ row.completedAt # Null
            /\ row.completedAt < q.callId
            /\ Len(log) = 1
            /\ log[1].score = 80

\* C30 (flag recomputed, timestamp kept): the write of an updateAssetProgress
\* with progressPercentage below 90 and no completed override on a completed
\* row sets completed to false and leaves completedAt, which is set, as it
\* is; and every asset row with completed true has a completedAt.
C30_FlagRecomputed ==
    /\ [](\A k \in Users \X Assets :
            unitAssetProgress[k].completed
            => unitAssetProgress[k].exists /\ unitAssetProgress[k].completedAt # Null)
    /\ [][\A p \in Procs :
            LET q == procs[p]
                old == unitAssetProgress[AssetKey(q)]
                new == unitAssetProgress'[AssetKey(q)]
            IN  ( /\ q.op = "updateAssetProgress"
                  /\ q.pc = "uap_update"
                  /\ procs'[p] # q
                  /\ old.completed
                  /\ q.data.progressPercentage < CompletionThreshold
                  /\ q.data.completed = "undefined" )
                => /\ new.completed = FALSE
                   /\ new.completedAt = old.completedAt
                   /\ new.completedAt # Null]_vars

\* C30 witness: an updateAssetProgress to 89% has returned a row that is not
\* completed and carries the completedAt of an earlier request
C30_Witness ==
    \E p \in Procs :
        LET q == procs[p]
            row == unitAssetProgress[AssetKey(q)]
        IN  /\ q.pc = "done"
            /\ q.op = "updateAssetProgress"
            /\ q.data.completed = "undefined"
            /\ row.exists
            /\ row.progressPercentage = 89
            /\ row.completed = FALSE
            /\ row.completedAt # Null
            /\ row.completedAt < q.callId
            /\ q.result.assetProgress = row

====
